---- MODULE Spec2Model ----
(***************************************************************************)
(* Security baseline automation: the Session Orchestrator                  *)
(* (security_baseline_orchestrator.lambda_handler), the Requirement Loop   *)
(* (requirement_processor.lambda_handler) it invokes synchronously for     *)
(* each requirement, and the Resource Reclaimer                            *)
(* (resource_cleanup.lambda_handler) that both invoke asynchronously       *)
(* (InvocationType='Event').                                               *)
(*                                                                         *)
(* Provisioner, Validator and Refiner are external collaborators: each     *)
(* call returns a result chosen from a small set of results.               *)
(***************************************************************************)
EXTENDS Integers, Sequences, FiniteSets, TLC

\* ------------------------------------------------------------------ bounds
\* Largest requirement list the generation collaborator returns.
MaxReqs == 2

\* ------------------------------------------------------- program constants
\* requirement_processor.py:41
max_attempts == 3

\* Python's None, also standing for a key that is absent from a dict
\* (dict.get(key) is None in both cases).
None == "None"

\* str(e) of an exception raised by boto3 (client construction or invoke)
ProcessorException == "PROCESSOR_EXCEPTION"
InvokeException == "INVOKE_EXCEPTION"
\* str(e) when the invocation of a collaborator raises; the text of a boto3
\* client error names the function that was invoked
ProvisionerException == "PROVISIONER_EXCEPTION"
ValidatorException == "VALIDATOR_EXCEPTION"
RefinerException == "REFINER_EXCEPTION"

\* An invocation that raised instead of returning a payload.
Raise(e) == [exception |-> e]
Raises(outcome) == "exception" \in DOMAIN outcome

\* Results the collaborators can return.
\* The results a collaborator can return: one success and one failure per
\* error value (for the Refiner, one success per refined configuration).
DeployResults(errors) ==
    {[success |-> TRUE, error |-> None]}
    \cup {[success |-> FALSE, error |-> e] : e \in errors}
ValidationResults(errors) ==
    {[success |-> TRUE, error |-> None]}
    \cup {[success |-> FALSE, error |-> e] : e \in errors}
RefinementResults(configs, errors) ==
    {[success |-> TRUE, error |-> None, refined_config |-> c] : c \in configs}
    \cup {[success |-> FALSE, error |-> e, refined_config |-> None] : e \in errors}

\* The collaborators of one requirement processor invoked on its own.  A
\* failure result may lack its 'error' key (a Lambda function error payload
\* carries errorMessage instead): its error is then None.  Each invocation
\* can also raise.
LoopCollaborators ==
    [deploy |-> DeployResults({"PROVISION_ERROR", None})
                \cup {Raise(ProvisionerException)},
     validate |-> ValidationResults({"VALIDATION_ERROR_A", "VALIDATION_ERROR_B", None})
                  \cup {Raise(ValidatorException)},
     refine |-> RefinementResults({"refined_x", "refined_y"}, {"REFINEMENT_ERROR"})
                \cup {Raise(RefinerException)}]

\* The collaborators of a whole run: one failure each.
RunCollaborators ==
    [deploy |-> DeployResults({"PROVISION_ERROR"}),
     validate |-> ValidationResults({"VALIDATION_ERROR_A"}),
     refine |-> RefinementResults({"refined_x"}, {"REFINEMENT_ERROR"})]

\* requirement_processor.py:102, the default of validation_result.get('error', ...)
MaxRetryMessage == "Maximum retry attempts exceeded"
\* security_baseline_orchestrator.py:80, the default of result.get('error', ...)
UnknownErrorMessage == "Unknown error"
\* security_baseline_orchestrator.py:45
NoRequirementsMessage == "Failed to generate security requirements"

VARIABLES
    \* ---- Session Orchestrator (security_baseline_orchestrator.lambda_handler)
    opc,                     \* position of the orchestrator
    generation,              \* what the generation call did: "none", "error", "ok"
    requirements,            \* the generated requirement list
    req_index,               \* index of the for loop (1-based here)
    validated_requirements,  \* results collected so far
    orchResult,              \* what the orchestrator returned
    \* ---- Requirement Loop (requirement_processor.lambda_handler)
    ppc,                     \* position of the processor
    requirement,             \* the processor's copy of event['requirement']
    current_attempt,
    validation_result,
    resource_ids,            \* handles of the attempt's ResourceSet
    procResult,              \* what the processor returned
    requirement_index,       \* event['requirement_index']
    collaborators,           \* the results Provisioner, Validator and Refiner can return
    \* ---- cloud account and asynchronous invocation queue
    live,                    \* ResourceSets provisioned and not yet torn down
    pending,                 \* reclamation requests issued and not yet executed
    \* ---- observation of the current Requirement Loop
    calls,                   \* number of collaborator calls made by the loop
    valHist,                 \* validation results of the loop, in attempt order
    deployHist,              \* provisioning results of the loop, in attempt order
    refineHist,              \* refinement results of the loop, in attempt order
    sweeps,                  \* session-wide reclamation requests issued by the run
    \* ---- EC2 account, Provisioner and Reclaimer handlers called on their own
    ec2,                     \* the resources of the account
    cloudOps,                \* number of handler calls made so far
    deployment,              \* the most recent ec2_resource_manager call
    cleanup,                 \* the most recent resource_cleanup call
    previous,                \* the resource_cleanup call right before it, if any
    \* ---- session ids of orchestrator runs
    now,                     \* the clock datetime.now() reads
    runs,                    \* the runs started so far, with their session_id
    \* ---- IMDS validator (imds_validator.lambda_handler) called on its own
    imdsEvent,               \* the event and the instance it is validated against
    imdsResponse             \* what the validator returned

vars == <<opc, generation, requirements, req_index, validated_requirements,
          orchResult, ppc, requirement, current_attempt, validation_result,
          resource_ids, procResult, requirement_index, collaborators, live, pending, calls, valHist, deployHist,
          refineHist, sweeps, ec2, cloudOps, deployment, cleanup, previous,
          now, runs, imdsEvent, imdsResponse>>

orchVars == <<opc, generation, requirements, req_index, validated_requirements,
              orchResult, sweeps>>
procVars == <<ppc, requirement, current_attempt, validation_result,
              resource_ids, procResult, requirement_index>>
histVars == <<calls, valHist, deployHist, refineHist>>
cloudVars == <<ec2, cloudOps, deployment, cleanup, previous>>
sessionVars == <<now, runs>>
imdsVars == <<imdsEvent, imdsResponse>>

\* ------------------------------------------------------------- data shapes
\* A requirement as the generation collaborator returns it.  The loop-owned
\* fields are absent from the generated dict: validation_status "PENDING"
\* stands for the absent key, test_attempts 0 for an absent count.
NewRequirement(i) ==
    [id |-> i,
     configuration |-> "generated",
     validation_status |-> "PENDING",
     validation_error |-> None,
     test_attempts |-> 0,
     refinement_notes |-> <<>>]

NoRequirement == NewRequirement(0)

NoResult == [statusCode |-> 0, error |-> None, body |-> NoRequirement]
NoValidation == [success |-> FALSE, error |-> None, attempt |-> 0]
NoHandles == <<0, 0>>
NoCalls == [deploy |-> 0, validate |-> 0, refine |-> 0, cleanup |-> 0]

\* No report built: the report fields of a run that returned none.
NoReport ==
    [summary |-> [total_requirements |-> 0, validated |-> 0, failed |-> 0,
                  success_rate |-> <<>>],
     recommendations |-> <<>>,
     next_steps |-> <<>>]

NoRun == [statusCode |-> 0, error |-> None, total_requirements |-> 0,
          validated_requirements |-> 0, failed_requirements |-> 0,
          report |-> NoReport,
          requirements_details |-> <<>>]

\* len([r for r in rs if r.get('validation_status') == status])
RECURSIVE CountStatus(_, _)
CountStatus(rs, status) ==
    IF rs = <<>> THEN 0
    ELSE (IF Head(rs).validation_status = status THEN 1 ELSE 0)
         + CountStatus(Tail(rs), status)

\* dict.get(key, default): the default replaces an absent key only
GetError(result, default) ==
    IF result.error = None THEN default ELSE result.error

\* ------------------------------------------------------------- EC2 account
\* Resources are records carrying their SessionId tag; vpc 0 is no VPC.
\* An instance is "running" (pending or running), "shutting-down" or
\* "terminated".  created counts the resources ever created and gives ids.
\* buckets are S3 buckets with their SessionId tag (None: no tag set), roles
\* are IAM roles with their name and the session they were made for.
NoResources ==
    [vpcs |-> {}, igws |-> {}, subnets |-> {}, sgs |-> {}, instances |-> {},
     created |-> 0, buckets |-> {}, roles |-> {}]

NoResourceIds ==
    [instance_id |-> 0, vpc_id |-> 0, security_group_id |-> 0, subnet_id |-> 0]

\* observed_running is what wait_for_instance_running returned to the call
NoDeployment ==
    [session_id |-> None, requirement_index |-> 0,
     success |-> FALSE, resource_ids |-> NoResourceIds, error |-> None,
     observed_running |-> FALSE]

\* log is the sequence of EC2 calls the handler made, each <<call, id, outcome>>
NoCleanup ==
    [session_id |-> None, cleanup_type |-> None, resource_ids |-> NoResourceIds,
     statusCode |-> 0, error |-> None, errors |-> <<>>, log |-> <<>>]

\* What is kept of the call before the most recent one: its event, whether
\* it returned errors, whether an EC2 call of it failed for a reason outside
\* the account, and whether it deleted a VPC.
NoPrevious ==
    [session_id |-> None, cleanup_type |-> None, resource_ids |-> NoResourceIds,
     errors |-> FALSE, faults |-> FALSE, deleted_vpc |-> FALSE]

CloudInit ==
    /\ ec2 = NoResources
    /\ cloudOps = 0
    /\ deployment = NoDeployment
    /\ cleanup = NoCleanup
    /\ previous = NoPrevious

\* A clock reading: whole seconds and the microseconds within the second.
Midnight == [second |-> 0, microsecond |-> 0]

\* No orchestrator run started, the clock at its origin.
SessionInit ==
    /\ now = Midnight
    /\ runs = <<>>

\* No validation requested.
NoImdsEvent ==
    [expected |-> None, described |-> FALSE, MetadataOptions |-> None,
     instance_details |-> None]

NoImdsResponse ==
    [success |-> FALSE, test_results |-> <<>>, error |-> None,
     failed_tests |-> None]

ImdsInit ==
    /\ imdsEvent = NoImdsEvent
    /\ imdsResponse = NoImdsResponse

\* ------------------------------------------------------------ final report
\* Strings built from numbers are sequences of one-character strings.
Digits == <<"0", "1", "2", "3", "4", "5", "6", "7", "8", "9">>

\* str(n) / the {n} field of an f-string, for a natural number n
RECURSIVE Decimal(_)
Decimal(n) ==
    IF n < 10 THEN <<Digits[n + 1]>>
    ELSE Decimal(n \div 10) \o <<Digits[(n % 10) + 1]>>

\* Variant of FormatPercent that cuts the digits after the first decimal.
FormatPercentTruncating(num, den) ==
    LET tenths == (1000 * num) \div den
    IN  Decimal(tenths \div 10) \o <<".">> \o Decimal(tenths % 10) \o <<"%">>

\* f"{(num/den*100):.1f}%": the value rounded to the nearest tenth (a tie,
\* which needs den to be a multiple of 16, goes to the even tenth), written
\* with every integer digit, a point and one digit.
FormatPercent(num, den) ==
    LET q == (1000 * num) \div den
        r == (1000 * num) % den
        tenths == IF 2 * r > den THEN q + 1
                  ELSE IF 2 * r < den THEN q
                  ELSE IF q % 2 = 0 THEN q ELSE q + 1
    IN  Decimal(tenths \div 10) \o <<".">> \o Decimal(tenths % 10) \o <<"%">>

\* line 199
success_rate(validated_count, reqs) ==
    IF reqs # <<>> THEN FormatPercent(validated_count, Len(reqs))
    ELSE <<"0", "%">>

\* the two f-strings of lines 207 and 210: fixed text around the count
ReviewRecommendation(failed_count) ==
    [prefix |-> "Review and manually validate ",
     n |-> Decimal(failed_count),
     suffix |-> " failed requirements"]
DeployRecommendation(validated_count) ==
    [prefix |-> "Deploy ",
     n |-> Decimal(validated_count),
     suffix |-> " validated configurations to production"]

\* Variant of Recommendations without the guards on the counts.
RecommendationsUnguarded(validated_count, failed_count) ==
    <<ReviewRecommendation(failed_count), DeployRecommendation(validated_count)>>

\* lines 205-210
Recommendations(validated_count, failed_count) ==
    (IF failed_count > 0 THEN <<ReviewRecommendation(failed_count)>> ELSE <<>>)
    \o (IF validated_count > 0 THEN <<DeployRecommendation(validated_count)>>
        ELSE <<>>)

\* lines 185-215.  session_id, service_name and timestamp are copied from the
\* arguments and the clock and are left out.
generate_final_report(reqs) ==
    LET validated_count == CountStatus(reqs, "VALIDATED")
        failed_count == CountStatus(reqs, "FAILED")
    IN  [summary |-> [total_requirements |-> Len(reqs),
                      validated |-> validated_count,
                      failed |-> failed_count,
                      success_rate |-> success_rate(validated_count, reqs)],
         recommendations |-> Recommendations(validated_count, failed_count),
         next_steps |->
            <<"Review validation logs for detailed test results",
              "Consider implementing validated configurations in your infrastructure">>]

Init ==
    /\ CloudInit
    /\ SessionInit
    /\ ImdsInit
    /\ opc = "start"
    /\ generation = "none"
    /\ requirements = <<>>
    /\ req_index = 0
    /\ validated_requirements = <<>>
    /\ orchResult = NoRun
    /\ ppc = "idle"
    /\ requirement = NoRequirement
    /\ current_attempt = 0
    /\ validation_result = NoValidation
    /\ resource_ids = NoHandles
    /\ procResult = NoResult
    /\ requirement_index = 0
    /\ collaborators = RunCollaborators
    /\ live = {}
    /\ pending = <<>>
    /\ calls = NoCalls
    /\ valHist = <<>>
    /\ deployHist = <<>>
    /\ refineHist = <<>>
    /\ sweeps = 0

\* ------------------------------------------------------ Resource Reclaimer
\* The payload of an asynchronous reclamation request.
CleanupRequest(handles, ctype) ==
    [resource_ids |-> handles, cleanup_type |-> ctype]

\* resource_cleanup.lambda_handler: what one reclamation request tears down.
\* Only cleanup_type == 'resources' with non-empty resource_ids reclaims by
\* handle; every other request sweeps everything tagged with the session.
\* One session is modelled, so the sweep discovers every live ResourceSet.
ToTearDown(request, discovered) ==
    IF request.cleanup_type = "resources" /\ request.resource_ids # NoHandles
    THEN discovered \cap {request.resource_ids}
    ELSE discovered

\* The reclaimer runs one queued request (the Lambda service delivers an
\* 'Event' invocation at some later time, concurrently with its issuer).
\* Teardown terminates the instance, polls until it is terminated
\* (wait_for_instance_termination: 10 s per poll, up to 300 s), then deletes
\* the security group and the VPC; the ResourceSet stops being live when the
\* handler is done.
ResourceCleanup ==
    /\ UNCHANGED <<cloudVars, sessionVars, imdsVars>>
    /\ pending # <<>>
    /\ pending' = Tail(pending)
    /\ live' = live \ ToTearDown(Head(pending), live)
    /\ UNCHANGED <<orchVars, procVars, histVars, collaborators>>

\* -------------------------------------------------------- Requirement Loop
\* Variant of deploy_test_resources that reports a raising invocation as a
\* successful provisioning.
deploy_test_resources_unguarded(outcome) ==
    IF Raises(outcome) THEN [success |-> TRUE, error |-> None] ELSE outcome

\* lines 118-152: the payload the Provisioner returned or, when the
\* invocation raised, the failure built by the except clause
deploy_test_resources(outcome) ==
    IF Raises(outcome) THEN [success |-> FALSE, error |-> outcome.exception]
    ELSE outcome

\* lines 154-188: the same for the Validator
run_validation_tests(outcome) ==
    IF Raises(outcome) THEN [success |-> FALSE, error |-> outcome.exception]
    ELSE outcome

\* lines 190-211: the same for the Refiner
refine_configuration(outcome) ==
    IF Raises(outcome)
    THEN [success |-> FALSE, error |-> outcome.exception, refined_config |-> None]
    ELSE outcome

\* What the histories keep of a Provisioner call: its result, whether the
\* invocation raised, the configuration it was asked to provision and the
\* handles it returned.
DeployObserved(result, outcome, config, handles) ==
    [success |-> result.success, error |-> result.error,
     raised |-> Raises(outcome), configuration |-> config,
     resource_ids |-> IF result.success THEN handles ELSE NoHandles]

\* Of a Validator call: its result, whether the invocation raised, the
\* attempt, and the handles and the configuration it was given.
ValidationObserved(result, outcome, attempt, handles, config) ==
    [success |-> result.success, error |-> result.error, attempt |-> attempt,
     raised |-> Raises(outcome), resource_ids |-> handles,
     configuration |-> config]

\* Of a Refiner call: its result, whether the invocation raised, the attempt.
RefinementObserved(result, outcome, attempt) ==
    [success |-> result.success, error |-> result.error,
     refined_config |-> result.refined_config,
     raised |-> Raises(outcome), attempt |-> attempt]

\* requirement_processor.cleanup_test_resources: an asynchronous request
\* carrying the handles and the session id, without a cleanup_type.  An
\* exception of invoke is logged and swallowed: the request is then lost.
cleanup_test_resources(queue, handles, raised) ==
    IF raised THEN queue
    ELSE Append(queue, CleanupRequest(handles, None))

\* Variant of create_failed_response that answers with the requirement as
\* it was generated.
create_failed_response_generated(req, error_message) ==
    [NewRequirement(req.id) EXCEPT !.validation_status = "FAILED",
                                   !.validation_error = error_message]

\* requirement_processor.create_failed_response
create_failed_response(req, error_message) ==
    [req EXCEPT !.validation_status = "FAILED",
                !.validation_error = error_message]

\* MarkValidated recording the attempt bound instead of the attempt
MarkValidatedWithBound(req, attempt) ==
    [req EXCEPT !.validation_status = "VALIDATED",
                !.test_attempts = max_attempts]

\* lines 67-70: the fields set when the validation succeeded
MarkValidated(req, attempt) ==
    [req EXCEPT !.validation_status = "VALIDATED",
                !.test_attempts = attempt]

\* lines 101-104: the fields set after the while loop
MarkExhausted(req, result) ==
    [req EXCEPT !.validation_status = "FAILED",
                !.validation_error = GetError(result, MaxRetryMessage),
                !.test_attempts = max_attempts]

\* lines 87-88: a successful refinement replaces configuration and notes
ApplyRefinement(req, refined_config, attempt) ==
    [req EXCEPT !.configuration = refined_config,
                !.refinement_notes = <<attempt>>]

\* LoopContinues without the attempt bound
LoopContinuesUnbounded(attempt) == attempt >= 1

\* line 44: the loop condition
LoopContinues(attempt) == attempt <= max_attempts

\* ShouldRefine off by one: the last attempt is refined too
ShouldRefineLastAttempt(attempt) == attempt <= max_attempts

\* line 78: a failed validation is followed by a refinement
ShouldRefine(attempt) == attempt < max_attempts

Return200(req) == [statusCode |-> 200, error |-> None, body |-> req]
Return500(msg) == [statusCode |-> 500, error |-> msg, body |-> NoRequirement]

\* lines 29-42: the handler reads the event and builds its client; an
\* exception there reaches the handler's except clause (lines 111-116).
ProcessorStart ==
    /\ UNCHANGED <<cloudVars, sessionVars, imdsVars>>
    /\ ppc = "invoked"
    /\ \E raised \in BOOLEAN :
         IF raised
         THEN /\ ppc' = "returned"
              /\ procResult' = Return500(ProcessorException)
              /\ current_attempt' = current_attempt
         ELSE /\ ppc' = IF LoopContinues(1) THEN "deploy" ELSE "exhausted"
              /\ procResult' = procResult
              /\ current_attempt' = 1
    /\ UNCHANGED <<requirement, validation_result, resource_ids, requirement_index>>
    /\ UNCHANGED <<orchVars, histVars, live, pending, collaborators>>

\* DeployTestResources retrying a failed provisioning instead of returning
DeployTestResourcesRetrying ==
    /\ UNCHANGED <<cloudVars, sessionVars, imdsVars>>
    /\ ppc = "deploy"
    /\ calls' = [calls EXCEPT !.deploy = @ + 1]
    /\ \E outcome \in collaborators.deploy :
         LET resource_deployment_result == deploy_test_resources(outcome) IN
         /\ deployHist' = Append(deployHist,
                DeployObserved(resource_deployment_result, outcome,
                               requirement.configuration,
                               <<requirement_index, current_attempt>>))
         /\ IF resource_deployment_result.success
            THEN /\ resource_ids' = <<requirement_index, current_attempt>>
                 /\ live' = live \cup {<<requirement_index, current_attempt>>}
                 /\ ppc' = "validate"
            ELSE /\ ppc' = "cleanup"
                 /\ UNCHANGED <<resource_ids, live>>
    /\ UNCHANGED <<requirement, procResult, current_attempt, validation_result,
                   pending, valHist, refineHist>>
    /\ UNCHANGED <<orchVars, requirement_index, collaborators>>

\* lines 47-56: deploy_test_resources and the check of its result.  A
\* successful deployment creates the attempt's ResourceSet.
DeployTestResources ==
    /\ UNCHANGED <<cloudVars, sessionVars, imdsVars>>
    /\ ppc = "deploy"
    /\ calls' = [calls EXCEPT !.deploy = @ + 1]
    /\ \E outcome \in collaborators.deploy :
         LET resource_deployment_result == deploy_test_resources(outcome) IN
         /\ deployHist' = Append(deployHist,
                DeployObserved(resource_deployment_result, outcome,
                               requirement.configuration,
                               <<requirement_index, current_attempt>>))
         /\ IF resource_deployment_result.success
            THEN /\ resource_ids' = <<requirement_index, current_attempt>>
                 /\ live' = live \cup {<<requirement_index, current_attempt>>}
                 /\ ppc' = "validate"
                 /\ UNCHANGED <<requirement, procResult>>
            ELSE /\ requirement' = create_failed_response(
                                     requirement, resource_deployment_result.error)
                 /\ procResult' = Return200(requirement')
                 /\ ppc' = "returned"
                 /\ UNCHANGED <<resource_ids, live>>
    /\ UNCHANGED <<current_attempt, validation_result, pending, valHist, refineHist>>
    /\ UNCHANGED <<orchVars, requirement_index, collaborators>>

\* lines 58-78: run_validation_tests and the branch on its result.
RunValidationTests ==
    /\ UNCHANGED <<cloudVars, sessionVars, imdsVars>>
    /\ ppc = "validate"
    /\ \E outcome \in collaborators.validate, raised \in BOOLEAN :
         LET result == run_validation_tests(outcome) IN
         /\ ~result.success => ~raised
         /\ validation_result' = [success |-> result.success, error |-> result.error,
                                  attempt |-> current_attempt]
         /\ valHist' = Append(valHist,
                ValidationObserved(result, outcome, current_attempt,
                                   resource_ids, requirement.configuration))
         /\ IF result.success
            THEN /\ pending' = cleanup_test_resources(pending, resource_ids,
                                                      raised)
                 /\ calls' = [calls EXCEPT !.validate = @ + 1, !.cleanup = @ + 1]
                 /\ requirement' = MarkValidated(requirement, current_attempt)
                 /\ procResult' = Return200(requirement')
                 /\ ppc' = "returned"
            ELSE /\ calls' = [calls EXCEPT !.validate = @ + 1]
                 /\ ppc' = IF ShouldRefine(current_attempt) THEN "refine" ELSE "cleanup"
                 /\ UNCHANGED <<pending, requirement, procResult>>
    /\ UNCHANGED <<current_attempt, resource_ids, live, deployHist, refineHist>>
    /\ UNCHANGED <<orchVars, requirement_index, collaborators>>

\* RefineConfiguration without the break: a failed refinement goes on to the
\* next attempt
RefineConfigurationRetrying ==
    /\ UNCHANGED <<cloudVars, sessionVars, imdsVars>>
    /\ ppc = "refine"
    /\ calls' = [calls EXCEPT !.refine = @ + 1]
    /\ \E outcome \in collaborators.refine :
         LET refinement_result == refine_configuration(outcome) IN
         /\ refineHist' = Append(refineHist,
                RefinementObserved(refinement_result, outcome, current_attempt))
         /\ requirement' =
              IF refinement_result.success
              THEN ApplyRefinement(requirement, refinement_result.refined_config,
                                   current_attempt)
              ELSE requirement
    /\ ppc' = "cleanup"
    /\ UNCHANGED <<current_attempt, validation_result, resource_ids, procResult,
                   live, pending, valHist, deployHist>>
    /\ UNCHANGED <<orchVars, requirement_index, collaborators>>

\* lines 79-91: refine_configuration and the branch on its result; a failed
\* refinement leaves the while loop (break).
RefineConfiguration ==
    /\ UNCHANGED <<cloudVars, sessionVars, imdsVars>>
    /\ ppc = "refine"
    /\ calls' = [calls EXCEPT !.refine = @ + 1]
    /\ \E outcome \in collaborators.refine :
         LET refinement_result == refine_configuration(outcome) IN
         /\ refineHist' = Append(refineHist,
                RefinementObserved(refinement_result, outcome, current_attempt))
         /\ IF refinement_result.success
            THEN /\ requirement' = ApplyRefinement(requirement,
                                        refinement_result.refined_config,
                                        current_attempt)
                 /\ ppc' = "cleanup"
            ELSE /\ requirement' = requirement
                 /\ ppc' = "exhausted"
    /\ UNCHANGED <<current_attempt, validation_result, resource_ids, procResult,
                   live, pending, valHist, deployHist>>
    /\ UNCHANGED <<orchVars, requirement_index, collaborators>>

\* CleanupBeforeRetry going on to the next attempt without the reclamation
\* request
CleanupBeforeRetrySkipping ==
    /\ UNCHANGED <<cloudVars, sessionVars, imdsVars>>
    /\ ppc = "cleanup"
    /\ current_attempt' = current_attempt + 1
    /\ ppc' = IF LoopContinues(current_attempt') THEN "deploy" ELSE "exhausted"
    /\ UNCHANGED <<requirement, validation_result, resource_ids, procResult,
                   live, pending, histVars>>
    /\ UNCHANGED <<orchVars, requirement_index, collaborators>>

\* lines 93-98 and the loop test of line 44: reclaim, count the attempt,
\* sleep two seconds, and either start the next attempt or leave the loop.
\* The sleep is a delay of the loop only: the reclamation request runs
\* asynchronously and nothing makes the loop wait for it.
CleanupBeforeRetry ==
    /\ UNCHANGED <<cloudVars, sessionVars, imdsVars>>
    /\ ppc = "cleanup"
    /\ \E raised \in BOOLEAN :
         pending' = cleanup_test_resources(pending, resource_ids, raised)
    /\ calls' = [calls EXCEPT !.cleanup = @ + 1]
    /\ current_attempt' = current_attempt + 1
    /\ ppc' = IF LoopContinues(current_attempt') THEN "deploy" ELSE "exhausted"
    /\ UNCHANGED <<requirement, validation_result, resource_ids, procResult,
                   live, valHist, deployHist, refineHist>>
    /\ UNCHANGED <<orchVars, requirement_index, collaborators>>

\* AttemptsExhausted reporting the first attempt's validation result
AttemptsExhaustedFirstError ==
    /\ UNCHANGED <<cloudVars, sessionVars, imdsVars>>
    /\ ppc = "exhausted"
    /\ requirement' = MarkExhausted(requirement, valHist[1])
    /\ procResult' = Return200(requirement')
    /\ ppc' = "returned"
    /\ UNCHANGED <<current_attempt, validation_result, resource_ids,
                   live, pending>>
    /\ UNCHANGED <<orchVars, histVars, requirement_index, collaborators>>

\* lines 100-109: the return after the while loop.
AttemptsExhausted ==
    /\ UNCHANGED <<cloudVars, sessionVars, imdsVars>>
    /\ ppc = "exhausted"
    /\ requirement' = MarkExhausted(requirement, validation_result)
    /\ procResult' = Return200(requirement')
    /\ ppc' = "returned"
    /\ UNCHANGED <<current_attempt, validation_result, resource_ids,
                   live, pending>>
    /\ UNCHANGED <<orchVars, histVars, requirement_index, collaborators>>

\* ----------------------------------------------------- Session Orchestrator
\* invoke_bedrock_for_requirements: the parsed model answer, or
\* {'requirements': []} when the call or the parsing raised.
invoke_bedrock_for_requirements(outcome, n) ==
    IF outcome = "error" THEN <<>> ELSE [i \in 1..n |-> NewRequirement(i)]

\* NoRequirements never rejecting the list
NoRequirementsIgnored(reqs) == FALSE

\* line 44: not requirements_response.get('requirements')
NoRequirements(reqs) == reqs = <<>>

RunError(msg) == [NoRun EXCEPT !.statusCode = 500, !.error = msg]

\* lines 98-109: the body of a successful run
RunReport(reqs, details) ==
    [statusCode |-> 200,
     error |-> None,
     total_requirements |-> Len(reqs),
     validated_requirements |-> CountStatus(details, "VALIDATED"),
     failed_requirements |-> CountStatus(details, "FAILED"),
     report |-> generate_final_report(details),
     requirements_details |-> details]

\* Variant of RecordFault that records the error and leaves the status of
\* the requirement as generated.
RecordFaultKeepingStatus(req, result) ==
    [req EXCEPT !.validation_error = GetError(result, UnknownErrorMessage)]

\* lines 78-81: a processor result without statusCode 200
RecordFault(req, result) ==
    [req EXCEPT !.validation_status = "FAILED",
                !.validation_error = GetError(result, UnknownErrorMessage)]

\* lines 39-51: generate the requirements; an empty list raises, and the
\* handler's except clause (lines 111-116) returns the run-level error.
GenerateRequirements ==
    /\ UNCHANGED <<cloudVars, sessionVars, imdsVars>>
    /\ opc = "start"
    /\ \E outcome \in {"error", "ok"}, n \in 0..MaxReqs :
         /\ outcome = "error" => n = 0
         /\ generation' = outcome
         /\ LET reqs == invoke_bedrock_for_requirements(outcome, n) IN
            IF NoRequirements(reqs)
            THEN /\ orchResult' = RunError(NoRequirementsMessage)
                 /\ opc' = "done"
                 /\ UNCHANGED <<requirements, req_index>>
            ELSE /\ requirements' = reqs
                 /\ req_index' = 1
                 /\ opc' = "loop"
                 /\ UNCHANGED orchResult
    /\ UNCHANGED <<validated_requirements, sweeps>>
    /\ UNCHANGED <<procVars, histVars, live, pending, collaborators>>

\* lines 53-70: the synchronous invocation of the requirement processor for
\* the requirement at req_index.  invoke is called outside any
\* per-requirement try: when it raises, the exception reaches the handler's
\* except clause (lines 111-116).
InvokeProcessor ==
    /\ UNCHANGED <<cloudVars, sessionVars, imdsVars>>
    /\ opc = "loop"
    /\ req_index <= Len(requirements)
    /\ \E raised \in BOOLEAN :
         IF raised
         THEN /\ orchResult' = RunError(InvokeException)
              /\ opc' = "done"
              /\ UNCHANGED <<procVars, histVars>>
         ELSE /\ opc' = "wait"
              /\ ppc' = "invoked"
              /\ requirement' = requirements[req_index]
              /\ requirement_index' = req_index
              /\ UNCHANGED <<current_attempt, validation_result, resource_ids,
                             procResult, histVars, orchResult>>
    /\ UNCHANGED <<generation, requirements, req_index, validated_requirements,
                   sweeps, live, pending, collaborators>>

\* validated_requirements.append(...) of lines 76 and 81
RecordResult(details, entry) == Append(details, entry)

\* lines 72-81: read the processor's result and record it.
CollectResult ==
    /\ UNCHANGED <<cloudVars, sessionVars, imdsVars>>
    /\ opc = "wait"
    /\ ppc = "returned"
    /\ validated_requirements' =
         RecordResult(validated_requirements,
                IF procResult.statusCode = 200
                THEN procResult.body
                ELSE RecordFault(requirements[req_index], procResult))
    /\ req_index' = req_index + 1
    /\ opc' = "loop"
    /\ ppc' = "idle"
    /\ requirement' = NoRequirement
    /\ current_attempt' = 0
    /\ validation_result' = NoValidation
    /\ resource_ids' = NoHandles
    /\ procResult' = NoResult
    /\ requirement_index' = 0
    /\ calls' = NoCalls
    /\ valHist' = <<>>
    /\ deployHist' = <<>>
    /\ refineHist' = <<>>
    /\ UNCHANGED <<generation, requirements, orchResult, sweeps>>
    /\ UNCHANGED <<live, pending, collaborators>>

\* lines 83-109: build the report, issue the session-wide reclamation sweep
\* and return.  The sweep's invoke is not guarded: when it raises, the
\* exception reaches the handler's except clause (lines 111-116).
FinishRun ==
    /\ UNCHANGED <<cloudVars, sessionVars, imdsVars>>
    /\ opc = "loop"
    /\ req_index > Len(requirements)
    /\ sweeps' = sweeps + 1
    /\ \E raised \in BOOLEAN :
         IF raised
         THEN /\ orchResult' = RunError(InvokeException)
              /\ UNCHANGED pending
         ELSE /\ orchResult' = RunReport(requirements, validated_requirements)
              /\ pending' = Append(pending, CleanupRequest(NoHandles, None))
    /\ opc' = "done"
    /\ UNCHANGED <<generation, requirements, req_index, validated_requirements>>
    /\ UNCHANGED <<procVars, histVars, live, collaborators>>

Next ==
    \/ GenerateRequirements
    \/ InvokeProcessor
    \/ CollectResult
    \/ FinishRun
    \/ ProcessorStart
    \/ DeployTestResources
    \/ RunValidationTests
    \/ RefineConfiguration
    \/ CleanupBeforeRetry
    \/ AttemptsExhausted
    \/ ResourceCleanup

Spec == Init /\ [][Next]_vars

\* ------------------------------------------- the Requirement Loop on its own
\* requirement_processor.lambda_handler is a Lambda entry point: the state
\* right after it was invoked with an event carrying a generated requirement
\* and its index, with no orchestrator run in progress.
LoopInit ==
    /\ CloudInit
    /\ SessionInit
    /\ ImdsInit
    /\ opc = "none"
    /\ generation = "none"
    /\ requirements = <<>>
    /\ req_index = 0
    /\ validated_requirements = <<>>
    /\ orchResult = NoRun
    /\ ppc = "invoked"
    /\ requirement_index \in 1..MaxReqs
    /\ requirement = NewRequirement(requirement_index)
    /\ current_attempt = 0
    /\ validation_result = NoValidation
    /\ resource_ids = NoHandles
    /\ procResult = NoResult
    /\ collaborators = LoopCollaborators
    /\ live = {}
    /\ pending = <<>>
    /\ calls = NoCalls
    /\ valHist = <<>>
    /\ deployHist = <<>>
    /\ refineHist = <<>>
    /\ sweeps = 0

LoopNext ==
    \/ ProcessorStart
    \/ DeployTestResources
    \/ RunValidationTests
    \/ RefineConfiguration
    \/ CleanupBeforeRetry
    \/ AttemptsExhausted
    \/ ResourceCleanup

LoopSpec == LoopInit /\ [][LoopNext]_vars

\* ------------------------------------------------ generate_final_report alone
\* generate_final_report is a function of the list it is given.  The lists
\* are drawn from the requirement lists of at most MaxDetails entries, each
\* entry VALIDATED, FAILED or without a status.
MaxDetails == 5

ReportStatuses == {"VALIDATED", "FAILED", "PENDING"}

ReportInit ==
    /\ CloudInit
    /\ SessionInit
    /\ ImdsInit
    /\ opc = "report"
    /\ generation = "none"
    /\ requirements = <<>>
    /\ req_index = 0
    /\ \E n \in 0..MaxDetails : \E status \in [1..n -> ReportStatuses] :
         validated_requirements =
            [i \in 1..n |->
               [NewRequirement(i) EXCEPT !.validation_status = status[i]]]
    /\ orchResult = NoRun
    /\ ppc = "idle"
    /\ requirement = NoRequirement
    /\ current_attempt = 0
    /\ validation_result = NoValidation
    /\ resource_ids = NoHandles
    /\ procResult = NoResult
    /\ requirement_index = 0
    /\ collaborators = RunCollaborators
    /\ live = {}
    /\ pending = <<>>
    /\ calls = NoCalls
    /\ valHist = <<>>
    /\ deployHist = <<>>
    /\ refineHist = <<>>
    /\ sweeps = 0

\* line 84: report = generate_final_report(..., validated_requirements)
GenerateFinalReport ==
    /\ UNCHANGED <<cloudVars, sessionVars, imdsVars>>
    /\ opc = "report"
    /\ orchResult' = [orchResult EXCEPT
                        !.report = generate_final_report(validated_requirements)]
    /\ opc' = "reported"
    /\ UNCHANGED <<generation, requirements, req_index, validated_requirements,
                   sweeps>>
    /\ UNCHANGED <<procVars, histVars, live, pending, collaborators>>

ReportNext == GenerateFinalReport

ReportSpec == ReportInit /\ [][ReportNext]_vars

\* ======================================================= Resource Provisioner
\* ec2_resource_manager.py called on its own against the EC2 account.  Every
\* EC2 call can raise; fault names the call that raises in one handler call.
\* The session the handlers are called for, and another session whose
\* ResourceSet shares the account.
Session == "session_a"
OtherSession == "session_b"

DeployFaults ==
    {"describe_vpcs", "create_vpc", "modify_vpc_attribute",
     "create_internet_gateway", "attach_internet_gateway", "create_subnet",
     "create_route", "create_security_group",
     "authorize_security_group_ingress", "describe_subnets", "run_instances"}

\* lines 56-58
vpc_name(session_id) == <<"test-vpc", session_id>>
sg_name(session_id, index) == <<"test-sg", session_id, index>>

NewId(e) == e.created + 1

\* ---- the EC2 calls that create a resource; tags come from TagSpecifications
create_vpc(e, name, session_id) ==
    [e EXCEPT !.vpcs = @ \cup {[id |-> NewId(e), SessionId |-> session_id,
                                Name |-> name]},
              !.created = @ + 1]

\* Variant of create_internet_gateway that creates the gateway without tags.
create_internet_gateway_untagged(e, session_id) ==
    [e EXCEPT !.igws = @ \cup {[id |-> NewId(e), SessionId |-> None, vpc |-> 0]},
              !.created = @ + 1]

create_internet_gateway(e, session_id) ==
    [e EXCEPT !.igws = @ \cup {[id |-> NewId(e), SessionId |-> session_id,
                                vpc |-> 0]},
              !.created = @ + 1]

attach_internet_gateway(e, igw_id, vpc_id) ==
    [e EXCEPT !.igws = {IF g.id = igw_id THEN [g EXCEPT !.vpc = vpc_id] ELSE g
                        : g \in @}]

create_subnet(e, vpc_id, session_id) ==
    [e EXCEPT !.subnets = @ \cup {[id |-> NewId(e), SessionId |-> session_id,
                                   vpc |-> vpc_id]},
              !.created = @ + 1]

create_security_group(e, name, vpc_id, session_id) ==
    [e EXCEPT !.sgs = @ \cup {[id |-> NewId(e), SessionId |-> session_id,
                               vpc |-> vpc_id, GroupName |-> name]},
              !.created = @ + 1]

run_instances(e, subnet_id, sg_id, session_id) ==
    [e EXCEPT !.instances = @ \cup {[id |-> NewId(e), SessionId |-> session_id,
                                     subnet |-> subnet_id, sg |-> sg_id,
                                     state |-> "running"]},
              !.created = @ + 1]

\* EC2 refuses a second group of the same name in a VPC (InvalidGroup.Duplicate)
DuplicateGroup(e, name, vpc_id) ==
    \E g \in e.sgs : g.GroupName = name /\ g.vpc = vpc_id

\* EC2 deletes a group that exists and that no live instance uses
\* (InvalidGroup.NotFound, DependencyViolation otherwise)
GroupExists(e, sg_id) == \E g \in e.sgs : g.id = sg_id
GroupInUse(e, sg_id) ==
    \E i \in e.instances : i.sg = sg_id /\ i.state # "terminated"

delete_security_group(e, sg_id) ==
    [e EXCEPT !.sgs = {g \in @ : g.id # sg_id}]

\* lines 113-197: vpc_id 0 is the None the function returns on any exception
create_test_vpc(e, name, session_id, fault) ==
    LET existing == {v \in e.vpcs : v.Name = name /\ v.SessionId = session_id}
        vpc_id == NewId(e)
        e1 == create_vpc(e, name, session_id)
        igw_id == NewId(e1)
        e2 == create_internet_gateway(e1, session_id)
        e3 == attach_internet_gateway(e2, igw_id, vpc_id)
        e4 == create_subnet(e3, vpc_id, session_id)
        Out(ec, id) == [ec2 |-> ec, vpc_id |-> id]
    IN  IF fault = "describe_vpcs" THEN Out(e, 0)
        ELSE IF existing # {} THEN Out(e, (CHOOSE v \in existing : TRUE).id)
        ELSE IF fault = "create_vpc" THEN Out(e, 0)
        ELSE IF fault = "modify_vpc_attribute" THEN Out(e1, 0)
        ELSE IF fault = "create_internet_gateway" THEN Out(e1, 0)
        ELSE IF fault = "attach_internet_gateway" THEN Out(e2, 0)
        ELSE IF fault = "create_subnet" THEN Out(e3, 0)
        ELSE IF fault = "create_route" THEN Out(e4, 0)
        ELSE Out(e4, vpc_id)

\* lines 199-238
create_test_security_group(e, name, vpc_id, session_id, fault) ==
    LET e1 == create_security_group(e, name, vpc_id, session_id)
    IN  IF fault = "create_security_group" \/ DuplicateGroup(e, name, vpc_id)
        THEN [ec2 |-> e, sg_id |-> 0]
        ELSE IF fault = "authorize_security_group_ingress"
        THEN [ec2 |-> e1, sg_id |-> 0]
        ELSE [ec2 |-> e1, sg_id |-> NewId(e)]

\* lines 240-258
get_test_subnet(e, vpc_id, session_id, fault) ==
    LET found == {n \in e.subnets : n.vpc = vpc_id /\ n.SessionId = session_id}
    IN  IF fault = "describe_subnets" \/ found = {} THEN 0
        ELSE (CHOOSE n \in found : TRUE).id

\* lines 260-326
create_test_instance(e, subnet_id, sg_id, session_id, fault) ==
    IF fault = "run_instances" THEN [ec2 |-> e, instance_id |-> 0]
    ELSE [ec2 |-> run_instances(e, subnet_id, sg_id, session_id),
          instance_id |-> NewId(e)]

\* lines 483-499, reached with instance_id unset: the group, when the local
\* sg_id holds one, is deleted if EC2 accepts it and the refusal is dropped.
cleanup_failed_deployment(e, sg_id) ==
    IF sg_id # 0 /\ GroupExists(e, sg_id) /\ ~GroupInUse(e, sg_id)
    THEN delete_security_group(e, sg_id)
    ELSE e

\* line 328: timeout=300 (seconds)
running_timeout == 300

\* lines 345 and 349: time.sleep(10)
running_poll_interval == 10

\* How a launched instance fares while the Provisioner waits for it: it
\* comes up, stays pending longer than the wait, or is terminated by EC2.
Boots == {"running", "pending", "terminated"}

\* lines 328-352: polls the state every 10 seconds (line 345) until the
\* instance runs, has left service, or the timeout has passed
RECURSIVE wait_for_instance_running(_, _)
wait_for_instance_running(state, elapsed) ==
    IF ~(elapsed < running_timeout) THEN FALSE
    ELSE IF state = "running" THEN TRUE
    ELSE IF state \in {"terminated", "stopping", "stopped"} THEN FALSE
    ELSE wait_for_instance_running(state, elapsed + running_poll_interval)

\* the account once the wait is over: an instance EC2 terminated is
\* terminated; a pending one is discoverable like a running one
Booted(e, instance_id, boot) ==
    IF boot = "terminated"
    THEN [e EXCEPT !.instances =
            {IF i.id = instance_id THEN [i EXCEPT !.state = "terminated"]
             ELSE i : i \in @}]
    ELSE e

\* lines 43-111
deploy_ec2_resources(e, session_id, index, fault, boot) ==
    LET vpc == create_test_vpc(e, vpc_name(session_id), session_id, fault)
        sg == create_test_security_group(vpc.ec2, sg_name(session_id, index),
                                         vpc.vpc_id, session_id, fault)
        subnet_id == get_test_subnet(sg.ec2, vpc.vpc_id, session_id, fault)
        inst == create_test_instance(sg.ec2, subnet_id, sg.sg_id, session_id, fault)
        Failed(ec, msg) ==
            [ec2 |-> ec, success |-> FALSE, resource_ids |-> NoResourceIds,
             error |-> msg, observed_running |-> FALSE]
    IN  IF vpc.vpc_id = 0
        THEN Failed(cleanup_failed_deployment(vpc.ec2, 0),
                    "Failed to create test VPC")
        ELSE IF sg.sg_id = 0
        THEN Failed(cleanup_failed_deployment(sg.ec2, 0),
                    "Failed to create security group")
        ELSE IF subnet_id = 0
        THEN Failed(cleanup_failed_deployment(sg.ec2, sg.sg_id),
                    "Failed to get test subnet")
        ELSE IF inst.instance_id = 0
        THEN Failed(cleanup_failed_deployment(inst.ec2, sg.sg_id),
                    "Failed to create test instance")
        ELSE [ec2 |-> Booted(inst.ec2, inst.instance_id, boot),
              success |-> TRUE,
              resource_ids |-> [instance_id |-> inst.instance_id,
                                vpc_id |-> vpc.vpc_id,
                                security_group_id |-> sg.sg_id,
                                subnet_id |-> subnet_id],
              error |-> None,
              observed_running |-> wait_for_instance_running(boot, 0)]

\* handler calls (deployments and reclamations) in one behaviour
MaxCalls == 3

\* The requirement indexes deployments are made for: with two, a session
\* deploys again for the same index and for another one.
DeployIndexes == {1, 2}

\* ec2_resource_manager.lambda_handler with action 'deploy', for one of the
\* requirement indexes of the session.  How the instance boots is varied in
\* the calls in which no EC2 call raises.
DeployEC2Resources ==
    /\ cloudOps < MaxCalls
    /\ \E index \in DeployIndexes, fault \in {None} \cup DeployFaults,
          boot \in Boots :
         /\ fault # None => boot = "running"
         /\ LET out == deploy_ec2_resources(ec2, Session, index, fault, boot)
            IN  /\ ec2' = out.ec2
                /\ deployment' = [session_id |-> Session,
                                  requirement_index |-> index,
                                  success |-> out.success,
                                  resource_ids |-> out.resource_ids,
                                  error |-> out.error,
                                  observed_running |-> out.observed_running]
    /\ cloudOps' = cloudOps + 1
    /\ cleanup' = NoCleanup
    /\ previous' = NoPrevious
    /\ UNCHANGED <<orchVars, procVars, histVars, live, pending, collaborators>>
    /\ UNCHANGED <<sessionVars, imdsVars>>

\* ========================================================= Resource Reclaimer
\* resource_cleanup.py called on its own against the EC2 account.  A handler
\* call carries the account, the errors collected and the log of its EC2
\* calls, each <<call, id, outcome>>.  A call raises when fault names it
\* ("fault") or when EC2 refuses it ("NotFound", "DependencyViolation").
CleanupFaults ==
    {"describe_instances", "terminate_instances", "describe_security_groups",
     "delete_security_group", "describe_vpcs", "describe_internet_gateways",
     "detach_internet_gateway", "delete_internet_gateway", "describe_subnets",
     "delete_subnet", "describe_route_tables", "delete_vpc"}

Logged(c, call, id, outcome) ==
    [c EXCEPT !.log = Append(@, <<call, id, outcome>>)]

\* errors.append(f"Failed to ... {id}: {str(e)}")
Recorded(c, call, id, cause) ==
    [c EXCEPT !.errors = Append(@, <<call, id, cause>>)]

\* a call that raised: logged, and its error appended by the except clause
Raised(c, call, id, cause) ==
    Recorded(Logged(c, call, id, cause), call, id, cause)

\* except Exception as e: errors.append(str(e)) of the enclosing try
Escaped(c, call, cause) ==
    Recorded(Logged(c, call, 0, cause), "exception", 0, cause)

Min(ids) == CHOOSE id \in ids : \A other \in ids : id <= other

InstanceExists(e, id) == \E i \in e.instances : i.id = id

\* ec2.terminate_instances: running instances start shutting down
terminate_instances(e, ids) ==
    [e EXCEPT !.instances =
        {IF i.id \in ids /\ i.state = "running"
         THEN [i EXCEPT !.state = "shutting-down"] ELSE i : i \in @}]

\* line 391: timeout=300 (seconds)
termination_timeout == 300

\* line 405: time.sleep(10)
poll_interval == 10

InstanceState(e, id) == (CHOOSE i \in e.instances : i.id = id).state

\* The state describe_instances reports elapsed seconds after the wait
\* began, for an instance in state when it began: EC2 completes a shutdown
\* between the first poll and the second, unless timed_out, when it takes
\* longer than the whole wait.
PolledState(state, elapsed, timed_out) ==
    IF state = "shutting-down" /\ ~timed_out /\ elapsed >= poll_interval
    THEN "terminated"
    ELSE state

\* Variant of PollUntilTerminated that reports a wait that ran out of time
\* as a termination.
RECURSIVE PollUntilTerminatedOrTimeout(_, _, _, _)
PollUntilTerminatedOrTimeout(state, elapsed, fault, timed_out) ==
    IF ~(elapsed < termination_timeout)
    THEN [outcome |-> "ok", elapsed |-> elapsed]
    ELSE IF fault = "describe_instances"
    THEN [outcome |-> "fault", elapsed |-> elapsed]
    ELSE IF state = "absent"
    THEN [outcome |-> "NotFound", elapsed |-> elapsed]
    ELSE IF PolledState(state, elapsed, timed_out) = "terminated"
    THEN [outcome |-> "ok", elapsed |-> elapsed]
    ELSE PollUntilTerminatedOrTimeout(state, elapsed + poll_interval, fault,
                                      timed_out)

\* lines 396-412, the loop, for an instance in state ("absent": unknown to
\* EC2) when the wait began: outcome "ok" is return True (line 403),
\* "timeout" the loop condition failing (line 396), "fault" and "NotFound" a
\* poll that raised (lines 407-409); the last three return False (line 412)
RECURSIVE PollUntilTerminated(_, _, _, _)
PollUntilTerminated(state, elapsed, fault, timed_out) ==
    IF ~(elapsed < termination_timeout)
    THEN [outcome |-> "timeout", elapsed |-> elapsed]
    ELSE IF fault = "describe_instances"
    THEN [outcome |-> "fault", elapsed |-> elapsed]
    ELSE IF state = "absent"
    THEN [outcome |-> "NotFound", elapsed |-> elapsed]
    ELSE IF PolledState(state, elapsed, timed_out) = "terminated"
    THEN [outcome |-> "ok", elapsed |-> elapsed]
    ELSE PollUntilTerminated(state, elapsed + poll_interval, fault, timed_out)

\* lines 391-412.  When the wait returns, the time it took has passed in
\* the account too.
wait_for_instance_termination(c, id, fault, timed_out) ==
    LET state == IF InstanceExists(c.ec2, id) THEN InstanceState(c.ec2, id)
                 ELSE "absent"
        poll == PollUntilTerminated(state, 0, fault, timed_out)
        final == PolledState(state, poll.elapsed, timed_out)
        after == [c EXCEPT !.ec2.instances =
                     {IF i.id = id THEN [i EXCEPT !.state = final] ELSE i
                      : i \in @}]
    IN  Logged(after, "wait_for_instance_termination", id, poll.outcome)

\* lines 188-189: for instance_id in instance_ids
RECURSIVE WaitForInstances(_, _, _, _)
WaitForInstances(c, ids, fault, timed_out) ==
    IF ids = {} THEN c
    ELSE WaitForInstances(
             wait_for_instance_termination(c, Min(ids), fault, timed_out),
             ids \ {Min(ids)}, fault, timed_out)

\* ec2.delete_security_group inside its own try (lines 131-141, 196-202)
DeleteSecurityGroup(c, sg_id, fault) ==
    IF fault = "delete_security_group"
    THEN Raised(c, "delete_security_group", sg_id, "fault")
    ELSE IF ~GroupExists(c.ec2, sg_id)
    THEN Raised(c, "delete_security_group", sg_id, "NotFound")
    ELSE IF GroupInUse(c.ec2, sg_id)
    THEN Raised(c, "delete_security_group", sg_id, "DependencyViolation")
    ELSE Logged([c EXCEPT !.ec2 = delete_security_group(@, sg_id)],
                "delete_security_group", sg_id, "ok")

\* lines 196-202: for sg in sgs_response['SecurityGroups']
RECURSIVE DeleteSecurityGroups(_, _, _)
DeleteSecurityGroups(c, ids, fault) ==
    IF ids = {} THEN c
    ELSE DeleteSecurityGroups(DeleteSecurityGroup(c, Min(ids), fault),
                              ids \ {Min(ids)}, fault)

\* lines 337-342: detach and delete one gateway inside one try
DeleteInternetGateway(c, igw_id, fault) ==
    LET detached == [c EXCEPT !.ec2.igws =
                        {IF g.id = igw_id THEN [g EXCEPT !.vpc = 0] ELSE g
                         : g \in @}]
        deleted == [detached EXCEPT !.ec2.igws = {g \in @ : g.id # igw_id}]
    IN  IF fault = "detach_internet_gateway"
        THEN Raised(c, "detach_internet_gateway", igw_id, "fault")
        ELSE IF fault = "delete_internet_gateway"
        THEN Raised(Logged(detached, "detach_internet_gateway", igw_id, "ok"),
                    "delete_internet_gateway", igw_id, "fault")
        ELSE Logged(Logged(deleted, "detach_internet_gateway", igw_id, "ok"),
                    "delete_internet_gateway", igw_id, "ok")

\* lines 336-342: for igw in igws['InternetGateways']
RECURSIVE DeleteInternetGateways(_, _, _)
DeleteInternetGateways(c, ids, fault) ==
    IF ids = {} THEN c
    ELSE DeleteInternetGateways(DeleteInternetGateway(c, Min(ids), fault),
                                ids \ {Min(ids)}, fault)

\* EC2 refuses to delete a subnet that holds a live instance
SubnetInUse(e, subnet_id) ==
    \E i \in e.instances : i.subnet = subnet_id /\ i.state # "terminated"

\* lines 353-357
DeleteSubnet(c, subnet_id, fault) ==
    IF fault = "delete_subnet"
    THEN Raised(c, "delete_subnet", subnet_id, "fault")
    ELSE IF SubnetInUse(c.ec2, subnet_id)
    THEN Raised(c, "delete_subnet", subnet_id, "DependencyViolation")
    ELSE Logged([c EXCEPT !.ec2.subnets = {n \in @ : n.id # subnet_id}],
                "delete_subnet", subnet_id, "ok")

\* lines 352-357: for subnet in subnets['Subnets']
RECURSIVE DeleteSubnets(_, _, _)
DeleteSubnets(c, ids, fault) ==
    IF ids = {} THEN c
    ELSE DeleteSubnets(DeleteSubnet(c, Min(ids), fault), ids \ {Min(ids)}, fault)

\* EC2 refuses to delete a VPC that still holds a subnet, an attached
\* gateway or a security group other than its default one
VpcExists(e, vpc_id) == \E v \in e.vpcs : v.id = vpc_id
VpcInUse(e, vpc_id) ==
    \/ \E n \in e.subnets : n.vpc = vpc_id
    \/ \E g \in e.igws : g.vpc = vpc_id
    \/ \E g \in e.sgs : g.vpc = vpc_id

\* lines 376-383: success is set only when delete_vpc returned
DeleteVpc(c, vpc_id, fault) ==
    IF fault = "delete_vpc"
    THEN Raised(c, "delete_vpc", vpc_id, "fault")
    ELSE IF ~VpcExists(c.ec2, vpc_id)
    THEN Raised(c, "delete_vpc", vpc_id, "NotFound")
    ELSE IF VpcInUse(c.ec2, vpc_id)
    THEN Raised(c, "delete_vpc", vpc_id, "DependencyViolation")
    ELSE [Logged([c EXCEPT !.ec2.vpcs = {v \in @ : v.id # vpc_id}],
                 "delete_vpc", vpc_id, "ok")
          EXCEPT !.success = TRUE]

\* lines 316-389.  The result carries its own errors; the three describe
\* calls are guarded by the outer try only.  The VPCs the Provisioner builds
\* have no route table other than the untagged main one, so the tagged
\* listing of lines 360-365 is empty.
cleanup_vpc_resources(e, log, vpc_id, session_id, fault) ==
    LET c0 == [ec2 |-> e, log |-> log, errors |-> <<>>, success |-> FALSE]
        igws == {g.id : g \in {g \in e.igws :
                                 g.vpc = vpc_id /\ g.SessionId = session_id}}
        c1 == DeleteInternetGateways(
                  Logged(c0, "describe_internet_gateways", vpc_id, "ok"),
                  igws, fault)
        subnets == {n.id : n \in {n \in c1.ec2.subnets :
                                    n.vpc = vpc_id /\ n.SessionId = session_id}}
        c2 == DeleteSubnets(Logged(c1, "describe_subnets", vpc_id, "ok"),
                            subnets, fault)
        c3 == Logged(c2, "describe_route_tables", vpc_id, "ok")
    IN  IF fault = "describe_internet_gateways"
        THEN Escaped(c0, "describe_internet_gateways", "fault")
        ELSE IF fault = "describe_subnets"
        THEN Escaped(c1, "describe_subnets", "fault")
        ELSE IF fault = "describe_route_tables"
        THEN Escaped(c2, "describe_route_tables", "fault")
        ELSE DeleteVpc(c3, vpc_id, fault)

\* the caller of cleanup_vpc_resources (lines 144-149, 209-215): the errors
\* of the VPC cleanup are kept only when it did not succeed
AfterVpcCleanup(c, vpc) ==
    [ec2 |-> vpc.ec2, log |-> vpc.log,
     errors |-> IF vpc.success THEN c.errors ELSE c.errors \o vpc.errors]

\* lines 209-215: for vpc in vpcs_response['Vpcs']
RECURSIVE CleanupVpcs(_, _, _, _)
CleanupVpcs(c, ids, session_id, fault) ==
    IF ids = {} THEN c
    ELSE CleanupVpcs(
             AfterVpcCleanup(c, cleanup_vpc_resources(c.ec2, c.log, Min(ids),
                                                      session_id, fault)),
             ids \ {Min(ids)}, session_id, fault)

\* Variant of cleanup_specific_resources that deletes the security group
\* before it waits for the instance to terminate.
cleanup_specific_resources_group_first(e, ids, session_id, fault, timed_out) ==
    LET c0 == [ec2 |-> e, log |-> <<>>, errors |-> <<>>]
        c1 == IF ids.instance_id = 0 THEN c0
              ELSE IF fault = "terminate_instances"
              THEN Raised(c0, "terminate_instances", ids.instance_id, "fault")
              ELSE IF ~InstanceExists(e, ids.instance_id)
              THEN Raised(c0, "terminate_instances", ids.instance_id, "NotFound")
              ELSE Logged([c0 EXCEPT !.ec2 =
                              terminate_instances(@, {ids.instance_id})],
                          "terminate_instances", ids.instance_id, "ok")
        c2 == IF ids.security_group_id = 0 THEN c1
              ELSE DeleteSecurityGroup(c1, ids.security_group_id, fault)
        c3 == IF ids.instance_id = 0 THEN c2
              ELSE wait_for_instance_termination(c2, ids.instance_id, fault,
                                                 timed_out)
    IN  IF ids.vpc_id = 0 THEN c3
        ELSE AfterVpcCleanup(c3,
                 cleanup_vpc_resources(c3.ec2, c3.log, ids.vpc_id, session_id,
                                       fault))

\* lines 102-155
cleanup_specific_resources(e, ids, session_id, fault, timed_out) ==
    LET c0 == [ec2 |-> e, log |-> <<>>, errors |-> <<>>]
        c1 == IF ids.instance_id = 0 THEN c0
              ELSE IF fault = "terminate_instances"
              THEN Raised(c0, "terminate_instances", ids.instance_id, "fault")
              ELSE IF ~InstanceExists(e, ids.instance_id)
              THEN Raised(c0, "terminate_instances", ids.instance_id, "NotFound")
              ELSE Logged([c0 EXCEPT !.ec2 =
                              terminate_instances(@, {ids.instance_id})],
                          "terminate_instances", ids.instance_id, "ok")
        c2 == IF ids.instance_id = 0 THEN c1
              ELSE wait_for_instance_termination(c1, ids.instance_id, fault,
                                                 timed_out)
        c3 == IF ids.security_group_id = 0 THEN c2
              ELSE DeleteSecurityGroup(c2, ids.security_group_id, fault)
    IN  IF ids.vpc_id = 0 THEN c3
        ELSE AfterVpcCleanup(c3,
                 cleanup_vpc_resources(c3.ec2, c3.log, ids.vpc_id, session_id,
                                       fault))

\* Variant of Discoverable without the instance-state-name filter.
DiscoverableInAnyState(i) == TRUE

\* lines 170-175: the instance-state-name filter of describe_instances
\* ('pending', 'running', 'stopping', 'stopped')
Discoverable(i) == i.state = "running"

\* lines 157-221
cleanup_ec2_resources_by_session(e, session_id, fault, timed_out) ==
    LET c0 == [ec2 |-> e, log |-> <<>>, errors |-> <<>>]
        instance_ids == {i.id : i \in {i \in e.instances :
                            i.SessionId = session_id /\ Discoverable(i)}}
        c1 == Logged(c0, "describe_instances", 0, "ok")
        c2 == IF instance_ids = {} THEN c1
              ELSE WaitForInstances(
                     Logged([c1 EXCEPT !.ec2 = terminate_instances(@, instance_ids)],
                            "terminate_instances", Min(instance_ids), "ok"),
                     instance_ids, fault, timed_out)
        sgs == {g.id : g \in {g \in c2.ec2.sgs : g.SessionId = session_id}}
        c3 == DeleteSecurityGroups(
                  Logged(c2, "describe_security_groups", 0, "ok"), sgs, fault)
        vpcs == {v.id : v \in {v \in c3.ec2.vpcs : v.SessionId = session_id}}
    IN  IF fault = "describe_instances"
        THEN Escaped(c0, "describe_instances", "fault")
        ELSE IF fault = "terminate_instances" /\ instance_ids # {}
        THEN Escaped(c1, "terminate_instances", "fault")
        ELSE IF fault = "describe_security_groups"
        THEN Escaped(c2, "describe_security_groups", "fault")
        ELSE IF fault = "describe_vpcs"
        THEN Escaped(c3, "describe_vpcs", "fault")
        ELSE CleanupVpcs(Logged(c3, "describe_vpcs", 0, "ok"), vpcs,
                         session_id, fault)

\* lines 223-261: deletes the buckets whose SessionId tag is the session's;
\* a bucket without tags is skipped (lines 251-253)
cleanup_s3_resources_by_session(c, session_id) ==
    LET listed == Logged(c, "list_buckets", 0, "ok")
        own == {b \in c.ec2.buckets :
                   b.SessionId # None /\ b.SessionId = session_id}
    IN  IF own = {} THEN listed
        ELSE Logged([listed EXCEPT !.ec2.buckets = @ \ own],
                    "delete_bucket", 0, "ok")

\* line 280: session_id in role_name or role_name.startswith('security-test-')
\* A name is the sequence of its parts.
RoleOfSession(session_id, role_name) ==
    \/ \E k \in DOMAIN role_name : role_name[k] = session_id
    \/ role_name[1] = "security-test-"

\* lines 263-314: deletes every role line 280 selects.  The roles of the
\* account have no policies and are in no instance profile.
cleanup_iam_resources_by_session(c, session_id) ==
    LET listed == Logged(c, "list_roles", 0, "ok")
        selected == {r \in c.ec2.roles : RoleOfSession(session_id, r.name)}
    IN  IF selected = {} THEN listed
        ELSE Logged([listed EXCEPT !.ec2.roles = @ \ selected],
                    "delete_role", 0, "ok")

\* lines 62-100: the three sweeps in turn, each returning its own errors
cleanup_session_resources(e, session_id, fault, timed_out) ==
    cleanup_iam_resources_by_session(
        cleanup_s3_resources_by_session(
            cleanup_ec2_resources_by_session(e, session_id, fault, timed_out),
            session_id),
        session_id)

\* lines 14-60 of resource_cleanup.lambda_handler: the path taken
cleanup_results(e, event, fault, timed_out) ==
    IF event.cleanup_type = "resources" /\ event.resource_ids # NoResourceIds
    THEN cleanup_specific_resources(e, event.resource_ids, event.session_id,
                                    fault, timed_out)
    ELSE cleanup_session_resources(e, event.session_id, fault, timed_out)

\* no EC2 call of the handler call failed for a reason outside the account
FaultFree(c) == \A i \in DOMAIN c.log : c.log[i][3] # "fault"

Summary(c) ==
    [session_id |-> c.session_id, cleanup_type |-> c.cleanup_type,
     resource_ids |-> c.resource_ids,
     errors |-> c.errors # <<>>,
     faults |-> ~FaultFree(c),
     deleted_vpc |-> \E i \in DOMAIN c.log :
                        c.log[i][1] = "delete_vpc" /\ c.log[i][3] = "ok"]

\* The events the handler is called with: a sweep of the session, or the
\* reclamation by handle of the ResourceSet the last deployment returned,
\* each also without its session_id.
CleanupEvents ==
    {[session_id |-> s, cleanup_type |-> "session",
      resource_ids |-> NoResourceIds] : s \in {Session, None}}
    \cup (IF deployment.success
          THEN {[session_id |-> s,
                 cleanup_type |-> "resources",
                 resource_ids |-> deployment.resource_ids] :
                    s \in {deployment.session_id, None}}
          ELSE {})

\* line 33
SessionIdRequired == "session_id is required for cleanup"

\* Variant of MissingSessionId that lets every request through.
MissingSessionIdAccepted(event) == FALSE

\* line 32: if not session_id
MissingSessionId(event) == event.session_id = None

\* lines 27-60: the response of the handler and the account it leaves
CleanupResponse(e, event, fault, timed_out) ==
    IF MissingSessionId(event)
    THEN [ec2 |-> e, statusCode |-> 500, error |-> SessionIdRequired,
          errors |-> <<>>, log |-> <<>>]
    ELSE LET out == cleanup_results(e, event, fault, timed_out)
         IN  [ec2 |-> out.ec2, statusCode |-> 200, error |-> None,
              errors |-> out.errors, log |-> out.log]

\* resource_cleanup.lambda_handler.  Faults and timeouts are varied in the
\* calls that reach EC2.
CleanupResources ==
    /\ cloudOps < MaxCalls
    /\ \E event \in CleanupEvents, fault \in {None} \cup CleanupFaults,
          timed_out \in BOOLEAN :
         /\ event.session_id = None => fault = None /\ ~timed_out
         /\ LET out == CleanupResponse(ec2, event, fault, timed_out)
            IN  /\ ec2' = out.ec2
                /\ cleanup' = [session_id |-> event.session_id,
                               cleanup_type |-> event.cleanup_type,
                               resource_ids |-> event.resource_ids,
                               statusCode |-> out.statusCode,
                               error |-> out.error,
                               errors |-> out.errors,
                               log |-> out.log]
    /\ previous' = Summary(cleanup)
    /\ cloudOps' = cloudOps + 1
    /\ UNCHANGED deployment
    /\ UNCHANGED <<orchVars, procVars, histVars, live, pending, collaborators>>
    /\ UNCHANGED <<sessionVars, imdsVars>>

\* EC2 finishes terminating an instance that is shutting down.
InstanceTerminated ==
    /\ \E i \in ec2.instances :
         /\ i.state = "shutting-down"
         /\ ec2' = [ec2 EXCEPT !.instances =
                      (@ \ {i}) \cup {[i EXCEPT !.state = "terminated"]}]
    /\ UNCHANGED <<cloudOps, deployment, cleanup, previous>>
    /\ UNCHANGED <<orchVars, procVars, histVars, live, pending, collaborators>>
    /\ UNCHANGED <<sessionVars, imdsVars>>

\* The handlers of both files invoked directly against an account that
\* holds the ResourceSet deployed for the other session, a test bucket and a
\* test role of each session, and a bucket without tags.
AccountBuckets ==
    {[name |-> <<"security-test-", s>>, SessionId |-> s] :
        s \in {Session, OtherSession}}
    \cup {[name |-> <<"logs">>, SessionId |-> None]}

AccountRoles ==
    {[name |-> <<"security-test-", s, "-role">>, SessionId |-> s] :
        s \in {Session, OtherSession}}

OtherResources ==
    [deploy_ec2_resources(NoResources, OtherSession, 1, None, "running").ec2
        EXCEPT !.buckets = AccountBuckets, !.roles = AccountRoles]

CloudInitial ==
    /\ SessionInit
    /\ ImdsInit
    /\ ec2 = OtherResources
    /\ cloudOps = 0
    /\ deployment = NoDeployment
    /\ cleanup = NoCleanup
    /\ previous = NoPrevious
    /\ opc = "none"
    /\ generation = "none"
    /\ requirements = <<>>
    /\ req_index = 0
    /\ validated_requirements = <<>>
    /\ orchResult = NoRun
    /\ ppc = "idle"
    /\ requirement = NoRequirement
    /\ current_attempt = 0
    /\ validation_result = NoValidation
    /\ resource_ids = NoHandles
    /\ procResult = NoResult
    /\ requirement_index = 0
    /\ collaborators = RunCollaborators
    /\ live = {}
    /\ pending = <<>>
    /\ calls = NoCalls
    /\ valHist = <<>>
    /\ deployHist = <<>>
    /\ refineHist = <<>>
    /\ sweeps = 0

CloudNext ==
    \/ DeployEC2Resources
    \/ CleanupResources
    \/ InstanceTerminated

CloudSpec == CloudInitial /\ [][CloudNext]_vars

\* ================================================================ session ids
\* security_baseline_orchestrator.lambda_handler, lines 27-33, for several
\* runs: each run reads its event and the clock and builds its session_id.
\* Runs are separate Lambda invocations and can start at the same instant.
\* The clock runs for MaxSeconds seconds; at most MaxRuns runs are started.
MaxSeconds == 2
MaxRuns == 3

\* event.get('service_name'): a service name, or None for an absent key
ServiceNames == {None, "EC2", "S3"}

\* line 27: event.get('service_name', 'EC2')
service_name(event) == IF event = None THEN "EC2" ELSE event

\* datetime.strftime('%Y%m%d_%H%M%S'): the reading written down to the whole
\* second, the microseconds dropped
strftime(t) == Decimal(t.second)

\* line 31: f"{service_name}_{datetime.now().strftime('%Y%m%d_%H%M%S')}"
session_id(name, t) == <<name, "_">> \o strftime(t)

\* lines 27-33 of one run
StartRun ==
    /\ Len(runs) < MaxRuns
    /\ \E event \in ServiceNames :
         runs' = Append(runs, [service_name |-> service_name(event),
                               started |-> now,
                               session_id |-> session_id(service_name(event), now)])
    /\ UNCHANGED now
    /\ UNCHANGED <<orchVars, procVars, histVars, live, pending, collaborators,
                   cloudVars, imdsVars>>

\* Time passes: to the middle of the second, or to the next second.
Tick ==
    /\ \/ /\ now.microsecond = 0
          /\ now' = [now EXCEPT !.microsecond = 500000]
       \/ /\ now.second < MaxSeconds
          /\ now' = [second |-> now.second + 1, microsecond |-> 0]
    /\ UNCHANGED runs
    /\ UNCHANGED <<orchVars, procVars, histVars, live, pending, collaborators,
                   cloudVars, imdsVars>>

SessionNext ==
    \/ StartRun
    \/ Tick

SessionSpec == Init /\ [][SessionNext]_vars

\* ============================================================ IMDS validator
\* imds_validator.py called on its own.  An event holds the HttpTokens value
\* the requirement expects (None: no MetadataOptions in its configuration),
\* whether describe_instances answers, the MetadataOptions of the instance,
\* and the instance_details the Provisioner returned: "empty" (it could not
\* read them), "no_ip" (without private address) or "full".
MetadataOptionValues ==
    [HttpTokens : {"required", "optional"},
     HttpEndpoint : {"enabled", "disabled"},
     HttpPutResponseHopLimit : {1, 2}]

ImdsEvents ==
    [expected : {None, "required", "optional"},
     described : BOOLEAN,
     MetadataOptions : MetadataOptionValues,
     instance_details : {"empty", "no_ip", "full"}]

\* instance_details.get('metadata_options', {}) with the defaults of the
\* .get calls of lines 166, 205, 206 and 251
metadata_options(event) ==
    IF event.instance_details = "empty"
    THEN [HttpTokens |-> "optional", HttpEndpoint |-> "enabled",
          HttpPutResponseHopLimit |-> 1]
    ELSE event.MetadataOptions

\* lines 94-144
test_metadata_options(event) ==
    [test_name |-> "MetadataOptions Configuration",
     passed |-> /\ event.described
                /\ \/ event.expected = None
                   \/ event.MetadataOptions.HttpTokens = event.expected]

\* lines 146-191
test_imdsv1_access(event) ==
    [test_name |-> "IMDSv1 Access Block",
     passed |-> /\ event.instance_details = "full"
                /\ metadata_options(event).HttpTokens = "required"]

\* lines 193-237
test_imdsv2_token_requirement(event) ==
    [test_name |-> "IMDSv2 Token Requirement",
     passed |-> \/ /\ metadata_options(event).HttpTokens = "required"
                   /\ metadata_options(event).HttpEndpoint = "enabled"
                \/ metadata_options(event).HttpEndpoint = "disabled"]

\* lines 239-273
test_hop_limit(event) ==
    [test_name |-> "IMDS Hop Limit",
     passed |-> metadata_options(event).HttpPutResponseHopLimit = 1]

\* lines 71-92
run_imds_tests(event) ==
    <<test_metadata_options(event), test_imdsv1_access(event),
      test_imdsv2_token_requirement(event), test_hop_limit(event)>>

\* lines 286-290
critical_tests ==
    {"MetadataOptions Configuration", "IMDSv1 Access Block",
     "IMDSv2 Token Requirement"}

\* Variant of analyze_imds_results that requires every test to pass.
analyze_imds_results_strict(validation_results) ==
    \A i \in DOMAIN validation_results : validation_results[i].passed

\* lines 275-306
analyze_imds_results(validation_results) ==
    LET critical_failures ==
            {i \in DOMAIN validation_results :
                /\ validation_results[i].test_name \in critical_tests
                /\ ~validation_results[i].passed}
    IN  critical_failures = {}

NotPassed(r) == ~r.passed

ImdsTestsFailed == "One or more IMDS tests failed"

\* lines 37-61 of imds_validator.lambda_handler
ImdsResponse(event) ==
    LET validation_results == run_imds_tests(event)
        success == analyze_imds_results(validation_results)
    IN  [success |-> success,
         test_results |-> validation_results,
         error |-> IF success THEN None ELSE ImdsTestsFailed,
         failed_tests |-> IF success THEN None
                          ELSE SelectSeq(validation_results, NotPassed)]

\* imds_validator.lambda_handler
ValidateImds ==
    /\ imdsResponse = NoImdsResponse
    /\ imdsResponse' = ImdsResponse(imdsEvent)
    /\ UNCHANGED imdsEvent
    /\ UNCHANGED <<orchVars, procVars, histVars, live, pending, collaborators,
                   cloudVars, sessionVars>>

\* The validator is handed any of the events.
ImdsInitial ==
    /\ imdsEvent \in ImdsEvents
    /\ imdsResponse = NoImdsResponse
    /\ CloudInit
    /\ SessionInit
    /\ opc = "none"
    /\ generation = "none"
    /\ requirements = <<>>
    /\ req_index = 0
    /\ validated_requirements = <<>>
    /\ orchResult = NoRun
    /\ ppc = "idle"
    /\ requirement = NoRequirement
    /\ current_attempt = 0
    /\ validation_result = NoValidation
    /\ resource_ids = NoHandles
    /\ procResult = NoResult
    /\ requirement_index = 0
    /\ collaborators = RunCollaborators
    /\ live = {}
    /\ pending = <<>>
    /\ calls = NoCalls
    /\ valHist = <<>>
    /\ deployHist = <<>>
    /\ refineHist = <<>>
    /\ sweeps = 0

ImdsNext == ValidateImds

ImdsSpec == ImdsInitial /\ [][ImdsNext]_vars

\* ===================================================================== claims
Last(seq) == seq[Len(seq)]

\* the loop returned a requirement (statusCode 200)
Returned == ppc = "returned" /\ procResult.statusCode = 200

AllSucceeded(hist) == \A i \in 1..Len(hist) : hist[i].success
NoneSucceeded(hist) == \A i \in 1..Len(hist) : ~hist[i].success

\* C1: when the Requirement Loop returns, it has issued exactly one
\* reclamation request for each attempt that reached validation, whatever the
\* outcome (validated, retried, exhausted, refinement failed).
C1_ReclaimOncePerAttempt ==
    Returned => calls.cleanup = calls.validate

\* C2: at most one ResourceSet of a requirement is live in every reachable
\* state: attempt N+1 provisions only after attempt N's ResourceSet is
\* torn down.
C2_OneLiveResourceSet ==
    \A r \in 1..MaxReqs : Cardinality({h \in live : h[1] = r}) <= 1

\* C3: one execution of the loop invokes the Provisioner at most max_attempts
\* times and the Refiner at most max_attempts - 1 times, and the Refiner is
\* never invoked once attempt max_attempts has been validated.
C3_CallBounds ==
    /\ [](/\ calls.deploy <= max_attempts
          /\ calls.refine <= max_attempts - 1)
    /\ [][calls.validate = max_attempts => calls'.refine = calls.refine]_vars

C3_Witness ==
    /\ Returned
    /\ calls.deploy = max_attempts
    /\ calls.validate = max_attempts
    /\ calls.refine = max_attempts - 1

\* C4: when every provisioning and refinement succeeds and validation fails
\* on attempts 1..k-1 and succeeds on attempt k, the loop returns VALIDATED
\* with test_attempts = k after exactly k-1 Refiner calls.
C4_ValidatedOnAttemptK ==
    LET k == Len(valHist) IN
    (/\ ppc = "returned"
     /\ k >= 1
     /\ AllSucceeded(deployHist)
     /\ AllSucceeded(refineHist)
     /\ Last(valHist).success
     /\ NoneSucceeded(SubSeq(valHist, 1, k - 1)))
    => /\ k <= max_attempts
       /\ procResult.statusCode = 200
       /\ procResult.body.validation_status = "VALIDATED"
       /\ procResult.body.test_attempts = k
       /\ calls.refine = k - 1
       /\ Len(refineHist) = k - 1

C4_Witness ==
    /\ Returned
    /\ Len(valHist) = 3
    /\ Last(valHist).success
    /\ ~valHist[1].success /\ ~valHist[2].success
    /\ procResult.body.test_attempts = 3
    /\ calls.refine = 2

\* C5: when validation fails on all max_attempts attempts, the loop returns
\* FAILED with test_attempts = max_attempts and the validation_error of the
\* last attempt's validation result (the default message when that result
\* carries no error), not the error of an earlier attempt.
C5_ExhaustedReportsLastError ==
    (/\ ppc = "returned"
     /\ Len(valHist) = max_attempts
     /\ NoneSucceeded(valHist))
    => /\ procResult.statusCode = 200
       /\ procResult.body.validation_status = "FAILED"
       /\ procResult.body.test_attempts = max_attempts
       /\ Last(valHist).attempt = max_attempts
       /\ Last(valHist).error # None
            => procResult.body.validation_error = Last(valHist).error
       /\ Last(valHist).error = None
            => procResult.body.validation_error = MaxRetryMessage

C5_Witness ==
    /\ Returned
    /\ Len(valHist) = max_attempts
    /\ NoneSucceeded(valHist)
    /\ valHist[1].error = "VALIDATION_ERROR_A"
    /\ valHist[2].error = "VALIDATION_ERROR_A"
    /\ valHist[3].error = "VALIDATION_ERROR_B"
    /\ procResult.body.validation_error = "VALIDATION_ERROR_B"

ProvisioningFailed == deployHist # <<>> /\ ~Last(deployHist).success

\* C6: once a provisioning call has reported failure, the loop has returned
\* the requirement FAILED with the provisioning error, and it makes no further
\* Provisioner, Validator or Refiner call: the call counts stay those of the
\* moment of the failure.
C6_ProvisioningFailureIsFatal ==
    ProvisioningFailed
    => /\ Returned
       /\ procResult.body.validation_status = "FAILED"
       /\ procResult.body.validation_error = Last(deployHist).error
       /\ calls.deploy = Len(deployHist)
       /\ calls.validate = Len(deployHist) - 1
       /\ calls.refine = Len(deployHist) - 1
       /\ Len(valHist) = calls.validate
       /\ Len(refineHist) = calls.refine

C6_Witness ==
    /\ ProvisioningFailed
    /\ Len(deployHist) = 2
    /\ Last(deployHist).error = "PROVISION_ERROR"
    /\ procResult.body.validation_error = "PROVISION_ERROR"

RefinementFailed == refineHist # <<>> /\ ~Last(refineHist).success

\* the configuration the requirement carried when refinement number n ran
ConfigurationBefore(n) ==
    IF n = 1 THEN "generated" ELSE refineHist[n - 1].refined_config

\* C7: once the Refiner has reported failure, the loop provisions no further
\* attempt, leaves the configuration as it was before that refinement, and
\* returns the requirement FAILED with the error of the validation that
\* preceded the refinement, never the refinement error.
C7_RefinementFailureEndsRetries ==
    RefinementFailed
    => LET n == Len(refineHist) IN
       /\ ppc \in {"exhausted", "returned"}
       /\ calls.deploy = n
       /\ calls.validate = n
       /\ calls.refine = n
       /\ requirement.configuration = ConfigurationBefore(n)
       /\ ppc = "returned"
            => /\ procResult.statusCode = 200
               /\ procResult.body.validation_status = "FAILED"
               /\ procResult.body.configuration = ConfigurationBefore(n)
               /\ procResult.body.validation_error
                    = GetError(valHist[n], MaxRetryMessage)
               /\ procResult.body.validation_error # Last(refineHist).error

C7_Witness ==
    /\ RefinementFailed
    /\ Returned
    /\ Len(refineHist) = 2
    /\ valHist[1].error = "VALIDATION_ERROR_A"
    /\ valHist[2].error = "VALIDATION_ERROR_B"
    /\ procResult.body.validation_error = "VALIDATION_ERROR_B"
    /\ procResult.body.configuration = refineHist[1].refined_config

\* positions of a loop that was started and has not returned
InLoop == ppc \in {"deploy", "validate", "refine", "cleanup", "exhausted"}

LoopStep ==
    \/ DeployTestResources
    \/ RunValidationTests
    \/ RefineConfiguration
    \/ CleanupBeforeRetry
    \/ AttemptsExhausted

\* the number of steps the loop can still take is at most Variant
PositionRank ==
    CASE ppc = "deploy" -> 5
      [] ppc = "validate" -> 4
      [] ppc = "refine" -> 3
      [] ppc = "cleanup" -> 2
      [] ppc = "exhausted" -> 1
      [] OTHER -> 0

Variant ==
    IF InLoop THEN 5 * (max_attempts + 1 - current_attempt) + PositionRank
    ELSE IF ppc = "invoked" THEN 5 * (max_attempts + 1) + 1
    ELSE 0

\* C8: an execution of the loop in which every collaborator call returns
\* terminates after a bounded number of steps (every step of the loop is
\* enabled until it returns and strictly decreases a natural-number variant)
\* and the requirement it returns is VALIDATED or FAILED, never PENDING.
C8_TerminatesInTerminalStatus ==
    /\ [](/\ InLoop => ENABLED LoopStep
          /\ Variant >= 0
          /\ Returned => procResult.body.validation_status \in {"VALIDATED", "FAILED"})
    /\ [][ppc' # ppc => Variant' < Variant]_vars

C8_Witness ==
    /\ Returned
    /\ calls.deploy = max_attempts
    /\ calls.validate = max_attempts
    /\ procResult.body.validation_status = "FAILED"

\* C9: when generation returns zero requirements (the generation call failing
\* included), the orchestrator returns a run-level error carrying only the
\* error, no Requirement Loop is started and no provisioning call occurs.
C9_ZeroRequirementsAbortsRun ==
    (generation # "none" /\ requirements = <<>>)
    => /\ opc = "done"
       /\ orchResult = RunError(NoRequirementsMessage)
       /\ ppc = "idle"
       /\ calls = NoCalls
       /\ deployHist = <<>>
       /\ live = {}
       /\ pending = <<>>
       /\ validated_requirements = <<>>

C9_Witness ==
    /\ generation = "error"
    /\ opc = "done"
    /\ orchResult.statusCode = 500
    /\ orchResult.error = NoRequirementsMessage

\* C10: once a non-empty requirement list has been obtained, the run ends
\* with a report that has one entry per requirement, never with a run-level
\* error, whatever fault the processing of a requirement met.
C10_FaultsNeverAbortRun ==
    (opc = "done" /\ requirements # <<>>)
    => /\ orchResult.statusCode = 200
       /\ Len(orchResult.requirements_details) = Len(requirements)

\* C11: a run in which at least one Requirement Loop was started has issued
\* exactly one session-wide reclamation sweep by the time it returns,
\* whatever the outcome of the loops, a raising invocation included.
C11_OneSweepPerRun ==
    (opc = "done" /\ validated_requirements # <<>>) => sweeps = 1

\* C12: a failure of a reclamation request never changes the outcome: a run
\* that reached its session sweep returns the report with status 200, and a
\* loop that returned did so with a terminal requirement and status 200
\* unless a collaborator call outside reclamation raised.
C12_ReclamationFailureIsHarmless ==
    /\ (opc = "done" /\ sweeps = 1) => orchResult.statusCode = 200
    /\ (Returned /\ procResult.statusCode = 200)
         => procResult.body.validation_status \in {"VALIDATED", "FAILED"}

\* C16: the orchestrator runs its loops under concurrency cap 1: in every
\* reachable state at most one loop holds a live ResourceSet, one that was
\* provisioned and whose teardown has not completed.
C16_AtMostOneLoopHoldsResources ==
    Cardinality({h[1] : h \in live}) <= 1

\* C17: in the result of a run, requirements_details has one entry per
\* generated requirement and entry i is the terminal result of the
\* requirement at original index i, whatever the outcome of each requirement
\* (validated, failed, or loop fault).
C17_DetailsKeyedByIndex ==
    (opc = "done" /\ requirements # <<>>)
    => /\ Len(orchResult.requirements_details) = Len(requirements)
       /\ \A i \in 1..Len(requirements) :
            /\ orchResult.requirements_details[i].id = requirements[i].id
            /\ orchResult.requirements_details[i].validation_status
                 \in {"VALIDATED", "FAILED"}

\* ---- reading a rendered number back
IsDigit(c) == \E d \in 1..10 : Digits[d] = c
DigitValue(c) == (CHOOSE d \in 1..10 : Digits[d] = c) - 1

RECURSIVE Number(_)
Number(chars) ==
    IF chars = <<>> THEN 0
    ELSE 10 * Number(SubSeq(chars, 1, Len(chars) - 1))
         + DigitValue(chars[Len(chars)])

Abs(x) == IF x < 0 THEN 0 - x ELSE x

StatusCount(reqs, status) ==
    Cardinality({i \in DOMAIN reqs : reqs[i].validation_status = status})

Reported == opc = "reported"

\* C18: generate_final_report renders success_rate, for a non-empty list, as
\* digits, a point, exactly one digit and '%', without a leading zero before
\* a digit, the number being the tenth nearest to 100 * validated / total
\* (2 of 5 gives "40.0%"); for the empty list it is the literal "0%".
C18_SuccessRateOneDecimal ==
    Reported =>
      LET out == orchResult.report.summary.success_rate
          total == Len(validated_requirements)
          validated == StatusCount(validated_requirements, "VALIDATED")
          n == Len(out)
      IN  /\ total = 0 => out = <<"0", "%">>
          /\ total > 0 =>
               /\ n >= 4
               /\ out[n] = "%"
               /\ out[n - 2] = "."
               /\ \A i \in (1..(n - 3)) \cup {n - 1} : IsDigit(out[i])
               /\ n > 4 => out[1] # "0"
               /\ 2 * Abs((10 * Number(SubSeq(out, 1, n - 3))
                           + Number(<<out[n - 1]>>)) * total
                          - 1000 * validated) <= total
          /\ (validated = 2 /\ total = 5) => out = <<"4", "0", ".", "0", "%">>

C18_Witness ==
    /\ Reported
    /\ Len(validated_requirements) = 5
    /\ StatusCount(validated_requirements, "VALIDATED") = 2
    /\ orchResult.report.summary.success_rate = <<"4", "0", ".", "0", "%">>

IsReview(entry) ==
    /\ entry.prefix = "Review and manually validate "
    /\ entry.suffix = " failed requirements"

IsDeploy(entry) ==
    /\ entry.prefix = "Deploy "
    /\ entry.suffix = " validated configurations to production"

\* C19: the report's recommendations contain a 'review N failed
\* requirements' entry, N the failed count, if and only if failed > 0, and a
\* 'deploy N validated configurations' entry, N the validated count, if and
\* only if validated > 0; there is at most one of each and no other entry.
C19_RecommendationsFollowCounts ==
    Reported =>
      LET recs == orchResult.report.recommendations
          failed == StatusCount(validated_requirements, "FAILED")
          validated == StatusCount(validated_requirements, "VALIDATED")
      IN  /\ failed > 0 <=> \E i \in DOMAIN recs : IsReview(recs[i])
          /\ validated > 0 <=> \E i \in DOMAIN recs : IsDeploy(recs[i])
          /\ \A i \in DOMAIN recs :
               /\ IsReview(recs[i]) \/ IsDeploy(recs[i])
               /\ IsReview(recs[i]) => Number(recs[i].n) = failed
               /\ IsDeploy(recs[i]) => Number(recs[i].n) = validated
               /\ \A j \in DOMAIN recs :
                    (IsReview(recs[i]) <=> IsReview(recs[j])) => i = j

C19_Witness ==
    /\ Reported
    /\ StatusCount(validated_requirements, "FAILED") = 2
    /\ StatusCount(validated_requirements, "VALIDATED") = 1
    /\ Len(orchResult.report.recommendations) = 2

\* ---- observations of a reclamation call
Attempted(c, call) == \E i \in DOMAIN c.log : c.log[i][1] = call

\* the call only listed resources: it found none to terminate or delete
NothingToDelete(c) ==
    \A i \in DOMAIN c.log :
        c.log[i][1] \in {"describe_instances", "describe_security_groups",
                         "describe_vpcs", "list_buckets", "list_roles"}

TwoSweeps ==
    /\ cleanup.cleanup_type = "session"
    /\ previous.cleanup_type = "session"
    /\ cleanup.session_id = previous.session_id

\* C13 as stated: for any set of resources tagged with a session, a second
\* consecutive sweep for the same session discovers no resource to delete
\* and returns an empty errors list, here even when no EC2 call of either
\* sweep fails for a reason outside the account.
C13_SecondSweepFindsNothing ==
    (TwoSweeps /\ ~previous.faults /\ FaultFree(cleanup))
    => /\ NothingToDelete(cleanup)
       /\ cleanup.errors = <<>>

\* C13 amended: when a sweep returned an empty errors list, a second
\* consecutive sweep for the same session whose EC2 calls do not fail
\* discovers no resource to delete and returns an empty errors list.
C13_SweepIdempotentAfterCleanSweep ==
    (TwoSweeps /\ ~previous.errors /\ FaultFree(cleanup))
    => /\ NothingToDelete(cleanup)
       /\ cleanup.errors = <<>>

C13_Witness ==
    /\ TwoSweeps
    /\ ~previous.errors
    /\ previous.deleted_vpc
    /\ FaultFree(cleanup)
    /\ NothingToDelete(cleanup)
    /\ cleanup.errors = <<>>

\* C14: reclaim by handle treats an already-absent resource as success: a
\* second invocation on a ResourceSet whose instance, security group and VPC
\* the first invocation deleted returns an empty errors list.
C14_ReclaimByHandleOfAbsentSucceeds ==
    (/\ cleanup.cleanup_type = "resources"
     /\ previous.cleanup_type = "resources"
     /\ cleanup.resource_ids = previous.resource_ids
     /\ ~previous.errors
     /\ FaultFree(cleanup)
     /\ ~GroupExists(ec2, cleanup.resource_ids.security_group_id)
     /\ ~VpcExists(ec2, cleanup.resource_ids.vpc_id))
    => cleanup.errors = <<>>

\* the teardown of a VPC that was started went on to delete_vpc
VpcStepsAttempted(c) ==
    \A i \in DOMAIN c.log :
        c.log[i][1] = "describe_internet_gateways" =>
            /\ Attempted(c, "describe_subnets")
            /\ Attempted(c, "describe_route_tables")
            /\ \E j \in DOMAIN c.log :
                 j > i /\ c.log[j][1] = "delete_vpc" /\ c.log[j][2] = c.log[i][2]

\* C15: reclamation is continue-on-error: whatever step fails, a session
\* sweep still attempts the instance, security-group and VPC steps, a
\* reclamation by handle still attempts every step of its ResourceSet, a VPC
\* teardown once started goes on to delete_vpc, and the call returns a result.
C15_ContinueOnError ==
    cleanup.session_id # None =>
      /\ cleanup.statusCode = 200
      /\ VpcStepsAttempted(cleanup)
      /\ cleanup.cleanup_type = "session" =>
           /\ Attempted(cleanup, "describe_instances")
           /\ Attempted(cleanup, "describe_security_groups")
           /\ Attempted(cleanup, "describe_vpcs")
      /\ cleanup.cleanup_type = "resources" =>
           /\ Attempted(cleanup, "terminate_instances")
           /\ Attempted(cleanup, "wait_for_instance_termination")
           /\ Attempted(cleanup, "delete_security_group")
           /\ Attempted(cleanup, "delete_vpc")

\* every resource of the account, as its id and SessionId tag
Tagged(e) ==
    {<<r.id, r.SessionId>> :
        r \in e.vpcs \cup e.igws \cup e.subnets \cup e.sgs \cup e.instances}

\* C20: in every reachable state, after a provisioning step failed part-way
\* too, every resource the Provisioner created carries the id of the session
\* it was created for as its SessionId tag: the resources deployed for the
\* other session carry that session's id, every later one the id of the
\* session the deployments are called for.
C20_CreatedResourcesCarrySessionId ==
    \A r \in Tagged(ec2) :
        r[2] = IF r[1] <= OtherResources.created THEN OtherSession ELSE Session

C20_Witness ==
    /\ deployment.error = "Failed to create test VPC"
    /\ \E g \in ec2.igws : g.SessionId = Session /\ g.vpc = 0
    /\ \E v \in ec2.vpcs : v.SessionId = Session

\* C21: each run of the Session Orchestrator generates a session_id distinct
\* from that of every other run: two runs for the same service name, two
\* started within the same clock second included, never share a session_id.
C21_SessionIdsDistinct ==
    \A i, j \in DOMAIN runs : i # j => runs[i].session_id # runs[j].session_id

\* C22: a ResourceSet is exclusively owned by the attempt that created it:
\* the reclamation request issued for one attempt tears down only that
\* attempt's handles, never the ResourceSet of a different attempt that is
\* being provisioned or validated while the asynchronous teardown runs.
C22_TeardownOnlyOwnHandles ==
    [][(/\ pending # <<>>
        /\ pending' = Tail(pending)
        /\ Head(pending).resource_ids # NoHandles)
       => (live \ live') \subseteq {Head(pending).resource_ids}]_vars

\* C23: the Requirement Loop issues a reclamation request on every exit path,
\* the exit taken when provisioning fails included: when it returns FAILED for
\* a provisioning error it has issued a reclamation request for each of its
\* attempts, the failed one included.
C23_ReclaimOnProvisioningFailure ==
    (Returned /\ ProvisioningFailed) => calls.cleanup = calls.deploy

\* C24: whenever the Requirement Loop returns FAILED after at least one
\* validation, test_attempts equals the number of attempts actually performed
\* (the number of provisioning calls made), also when retries ended early
\* because refinement failed on attempt 1 or 2.
C24_TestAttemptsCountsAttempts ==
    (/\ Returned
     /\ procResult.body.validation_status = "FAILED"
     /\ valHist # <<>>)
    => procResult.body.test_attempts = calls.deploy

\* the refinements of the loop that succeeded so far
SuccessfulRefinements == {i \in DOMAIN refineHist : refineHist[i].success}

\* C25: refinement_notes is an append-only ordered sequence: after k
\* successful refinements of a requirement it holds the notes of all k
\* refinements in attempt order, a later refinement never removing the notes
\* of an earlier one.
C25_RefinementNotesAppendOnly ==
    requirement.refinement_notes
      = [i \in 1..Cardinality(SuccessfulRefinements) |-> i]

SomeCallRaised ==
    \/ \E i \in DOMAIN deployHist : deployHist[i].raised
    \/ \E i \in DOMAIN valHist : valHist[i].raised
    \/ \E i \in DOMAIN refineHist : refineHist[i].raised

\* C26: an exception raised by the provisioning, validation or refinement
\* call never escapes the Requirement Loop as an error result.  A raising
\* provisioning call is handled as a provisioning failure (the loop returns
\* FAILED with the exception text and calls nothing more), a raising
\* validation call as a validation failure (a refinement follows before the
\* last attempt, FAILED with the exception text after it), a raising
\* refinement call as a refinement failure (the retries end), and whenever
\* the loop has returned after such a call it returned status 200 with the
\* requirement VALIDATED or FAILED.
C26_RaisingCallsAreHandled ==
    /\ \A i \in DOMAIN deployHist :
         deployHist[i].raised
         => /\ ~deployHist[i].success
            /\ deployHist[i].error = ProvisionerException
            /\ i = Len(deployHist)
            /\ Returned
            /\ procResult.body.validation_status = "FAILED"
            /\ procResult.body.validation_error = ProvisionerException
            /\ calls.validate = i - 1
    /\ \A i \in DOMAIN valHist :
         valHist[i].raised
         => /\ ~valHist[i].success
            /\ valHist[i].error = ValidatorException
            /\ i < max_attempts => (ppc = "refine" \/ Len(refineHist) >= i)
            /\ (i = max_attempts /\ ppc = "returned")
                 => /\ procResult.body.validation_status = "FAILED"
                    /\ procResult.body.validation_error = ValidatorException
    /\ \A i \in DOMAIN refineHist :
         refineHist[i].raised
         => /\ ~refineHist[i].success
            /\ refineHist[i].error = RefinerException
            /\ i = Len(refineHist)
            /\ ppc \in {"exhausted", "returned"}
            /\ calls.deploy = i
    /\ (ppc = "returned" /\ SomeCallRaised)
         => /\ procResult.statusCode = 200
            /\ procResult.body.validation_status \in {"VALIDATED", "FAILED"}

C26_Witness ==
    /\ Returned
    /\ Len(valHist) = 2
    /\ valHist[1].raised
    /\ refineHist[1].success
    /\ ~valHist[2].success /\ ~valHist[2].raised
    /\ refineHist[2].raised
    /\ procResult.body.validation_status = "FAILED"

\* C27: the collaborator calls of one Requirement Loop follow a fixed
\* protocol.  The Validator is called only after a successful provisioning in
\* the same attempt and with the handles that provisioning returned; the
\* Refiner is called only immediately after a failed validation of an attempt
\* below max_attempts (no other call lies between the two); and the
\* provisioning request of attempt N+1 is issued only after the loop issued
\* the reclamation request of attempt N.
C27_CallProtocol ==
    /\ [](/\ \A i \in DOMAIN valHist :
               /\ valHist[i].attempt = i
               /\ i <= Len(deployHist)
               /\ deployHist[i].success
               /\ deployHist[i].resource_ids = <<requirement_index, i>>
               /\ valHist[i].resource_ids = deployHist[i].resource_ids
          /\ \A i \in DOMAIN refineHist :
               /\ refineHist[i].attempt = i
               /\ i < max_attempts
               /\ i <= Len(valHist)
               /\ ~valHist[i].success)
    /\ [][/\ calls'.validate # calls.validate
               => /\ Len(deployHist) = current_attempt
                  /\ Last(deployHist).success
                  /\ calls.validate = current_attempt - 1
          /\ calls'.refine # calls.refine
               => /\ Len(valHist) = current_attempt
                  /\ ~Last(valHist).success
                  /\ current_attempt < max_attempts
                  /\ calls = [deploy |-> current_attempt,
                              validate |-> current_attempt,
                              refine |-> current_attempt - 1,
                              cleanup |-> current_attempt - 1]
          /\ (calls'.deploy # calls.deploy /\ calls.deploy >= 1)
               => /\ calls.cleanup = calls.deploy
                  /\ current_attempt = calls.deploy + 1]_vars

C27_Witness ==
    /\ Len(valHist) = 3
    /\ Len(refineHist) = 2
    /\ valHist[3].resource_ids = <<requirement_index, 3>>
    /\ deployHist[3].resource_ids = <<requirement_index, 3>>
    /\ calls.cleanup >= 2

\* the last attempt of the loop reached validation and its validation succeeded
FinalValidationSucceeded ==
    /\ valHist # <<>>
    /\ Len(valHist) = Len(deployHist)
    /\ Last(valHist).success

\* C28: a requirement is returned VALIDATED if and only if the validation of
\* its final attempt succeeded, and in every terminal return the
\* configuration carried by the requirement is exactly the configuration
\* that was provisioned in the last attempt (the one a validation of that
\* attempt was run against).
C28_ReturnedMatchesLastAttempt ==
    Returned
    => /\ deployHist # <<>>
       /\ procResult.body.validation_status = "VALIDATED"
            <=> FinalValidationSucceeded
       /\ procResult.body.validation_status \in {"VALIDATED", "FAILED"}
       /\ procResult.body.configuration = Last(deployHist).configuration
       /\ Len(valHist) = Len(deployHist)
            => procResult.body.configuration = Last(valHist).configuration

C28_Witness ==
    /\ Returned
    /\ Len(deployHist) = 3
    /\ procResult.body.validation_status = "VALIDATED"
    /\ deployHist[1].configuration = "generated"
    /\ deployHist[2].configuration = "refined_x"
    /\ deployHist[3].configuration = "refined_y"
    /\ procResult.body.configuration = "refined_y"

\* every EC2 call of the handler call c returned normally
AllCallsSucceeded(c) == \A i \in DOMAIN c.log : c.log[i][3] = "ok"

\* what is left in the account of the resources created under a session
Remaining(e, session) ==
    {r.id : r \in {r \in e.vpcs \cup e.igws \cup e.subnets \cup e.sgs :
                     r.SessionId = session}}
    \cup {i.id : i \in {i \in e.instances :
                          i.SessionId = session /\ i.state # "terminated"}}

\* C29: the session sweep recovers from partial provisioning: whatever step
\* of deploy_ec2_resources or create_test_vpc failed, after a subsequent
\* session sweep for that session in which every call succeeds, no resource
\* created under the session (instance, security group, internet gateway,
\* subnet, VPC) remains.
C29_SweepRecoversPartialProvisioning ==
    (/\ deployment.session_id = Session
     /\ ~deployment.success
     /\ cleanup.cleanup_type = "session"
     /\ cleanup.session_id = Session
     /\ AllCallsSucceeded(cleanup))
    => Remaining(ec2, Session) = {}

\* the place of a teardown call in the dependency order; 0 for a call that
\* only lists resources
TeardownRank(call) ==
    CASE call = "terminate_instances" -> 1
      [] call = "wait_for_instance_termination" -> 2
      [] call = "delete_security_group" -> 3
      [] call \in {"detach_internet_gateway", "delete_internet_gateway"} -> 4
      [] call = "delete_subnet" -> 5
      [] call = "delete_vpc" -> 6
      [] OTHER -> 0

\* call was made before position j of the log of c
AttemptedBefore(c, call, j) ==
    \E i \in 1..(j - 1) : c.log[i][1] = call

C31_WaitIsBoundedPoll ==
    /\ \A state \in {i.state : i \in ec2.instances} \cup {"absent"},
          fault \in {None, "describe_instances"}, timed_out \in BOOLEAN :
         LET poll == PollUntilTerminated(state, 0, fault, timed_out)
             raised == fault # None \/ state = "absent"
         IN  /\ poll.elapsed <= termination_timeout
             /\ poll.outcome \in {"ok", "timeout", "fault", "NotFound"}
             /\ poll.outcome \in {"fault", "NotFound"} <=> raised
             /\ ~raised =>
                  /\ poll.outcome = "ok" <=>
                       PolledState(state, poll.elapsed, timed_out)
                           = "terminated"
                  /\ poll.outcome = "timeout" <=>
                       /\ poll.elapsed = termination_timeout
                       /\ \A n \in 0 .. (termination_timeout \div poll_interval) - 1 :
                            PolledState(state, n * poll_interval, timed_out)
                                # "terminated"
    /\ LET log == cleanup.log
       IN  /\ Cardinality({i \in DOMAIN log :
                              log[i][1] = "terminate_instances"}) <= 1
           /\ \A i \in DOMAIN log :
                log[i][1] = "wait_for_instance_termination" =>
                  /\ log[i][3] \in {"ok", "timeout", "fault", "NotFound"}
                  /\ log[i][3] = "ok" =>
                       /\ InstanceExists(ec2, log[i][2])
                       /\ InstanceState(ec2, log[i][2]) = "terminated"
                  /\ \A j \in DOMAIN log :
                       j > i => log[j][1] # "terminate_instances"
                  /\ i < Len(log)
                  /\ log[i + 1][1] \in {"wait_for_instance_termination",
                                        "delete_security_group",
                                        "describe_security_groups"}

\* a reclamation by handle whose terminate call raised: the wait polled a
\* running instance until the time ran out, and the security group and the
\* VPC were attempted all the same
C31_Witness ==
    /\ cleanup.cleanup_type = "resources"
    /\ \E i \in DOMAIN cleanup.log :
         /\ cleanup.log[i] = <<"wait_for_instance_termination",
                               cleanup.resource_ids.instance_id, "timeout">>
         /\ InstanceState(ec2, cleanup.resource_ids.instance_id) = "running"
         /\ cleanup.log[i + 1][1] = "delete_security_group"
    /\ Attempted(cleanup, "delete_vpc")

\* a call of the teardown that raised, the polls of a wait apart
FailedSteps(c) ==
    {i \in DOMAIN c.log :
        /\ c.log[i][1] # "wait_for_instance_termination"
        /\ c.log[i][3] # "ok"}

\* C32: every teardown step that fails during a reclamation call is reported
\* in the errors list of its result: the list is empty if and only if no
\* step failed, a gateway or subnet deletion inside a VPC whose own deletion
\* then succeeded included.
C32_ErrorsReportEveryFailure ==
    cleanup.errors = <<>> <=> FailedSteps(cleanup) = {}

\* every resource of the account, in the state it is in
Resources(e) ==
    e.vpcs \cup e.igws \cup e.subnets \cup e.sgs \cup e.instances
    \cup e.buckets \cup e.roles

\* C33: a session sweep for session S deletes only resources created under
\* S: every resource (instance, security group, VPC, gateway, subnet, bucket,
\* IAM role) that a sweep removes or changes belongs to the session of the
\* sweep, never to another session or to none.
C33_SweepDeletesOnlyOwnResources ==
    [][(/\ cloudOps' # cloudOps
        /\ deployment' = deployment
        /\ cleanup'.cleanup_type = "session")
       => \A r \in Resources(ec2) \ Resources(ec2') :
              r.SessionId = cleanup'.session_id]_vars

\* C34: the Provisioner reports success only if the created instance was
\* observed in the running state: when the wait for running timed out or saw
\* the instance terminated, stopping or stopped, the deploy result is a
\* failure.
C34_SuccessOnlyIfObservedRunning ==
    deployment.success => deployment.observed_running

\* C35: in every successful run result the counts are consistent:
\* total_requirements = validated_requirements + failed_requirements = the
\* number of entries of requirements_details, and the summary of the report
\* carries the same three numbers.
C35_CountsConsistent ==
    orchResult.statusCode = 200 =>
        /\ orchResult.total_requirements
             = orchResult.validated_requirements
               + orchResult.failed_requirements
        /\ orchResult.total_requirements
             = Len(orchResult.requirements_details)
        /\ orchResult.report.summary.total_requirements
             = orchResult.total_requirements
        /\ orchResult.report.summary.validated
             = orchResult.validated_requirements
        /\ orchResult.report.summary.failed
             = orchResult.failed_requirements

\* a run of two requirements ended with one validated and one failed
C35_Witness ==
    /\ orchResult.statusCode = 200
    /\ orchResult.validated_requirements = 1
    /\ orchResult.failed_requirements = 1
    /\ Len(orchResult.requirements_details) = 2

\* C36: a reclamation request without a session_id is rejected with an error
\* result (status 500) and performs no discovery and no deletion of any
\* resource, even when it carries resource handles: the handler makes no
\* call and the account is left as it was.
C36_MissingSessionIdRejected ==
    /\ (cleanup.cleanup_type # None /\ cleanup.session_id = None) =>
          /\ cleanup.statusCode = 500
          /\ cleanup.error = SessionIdRequired
          /\ cleanup.log = <<>>
    /\ \A event \in CleanupEvents :
          event.session_id = None =>
              CleanupResponse(ec2, event, None, FALSE).ec2 = ec2

\* a rejected request that carried the handles of a deployed ResourceSet,
\* all of which are still in the account
C36_Witness ==
    /\ cleanup.session_id = None
    /\ cleanup.cleanup_type = "resources"
    /\ cleanup.resource_ids = deployment.resource_ids
    /\ cleanup.statusCode = 500
    /\ InstanceExists(ec2, cleanup.resource_ids.instance_id)
    /\ InstanceState(ec2, cleanup.resource_ids.instance_id) = "running"
    /\ GroupExists(ec2, cleanup.resource_ids.security_group_id)
    /\ VpcExists(ec2, cleanup.resource_ids.vpc_id)

\* the check named name is among the results and passed
CheckPassed(results, name) ==
    \E i \in DOMAIN results :
        results[i].test_name = name /\ results[i].passed

\* C37: the IMDS validator reports success if and only if each of the three
\* critical checks (MetadataOptions Configuration, IMDSv1 Access Block,
\* IMDSv2 Token Requirement) passed, whatever the result of the hop-limit
\* check; a failing result carries an error and the list of all checks that
\* did not pass, in the order they ran.
C37_SuccessIffCriticalChecksPass ==
    imdsResponse # NoImdsResponse =>
        LET results == imdsResponse.test_results
            failed == {i \in DOMAIN results : ~results[i].passed}
        IN  /\ Len(results) = 4
            /\ imdsResponse.success <=>
                 /\ CheckPassed(results, "MetadataOptions Configuration")
                 /\ CheckPassed(results, "IMDSv1 Access Block")
                 /\ CheckPassed(results, "IMDSv2 Token Requirement")
            /\ ~imdsResponse.success =>
                 /\ imdsResponse.error # None
                 /\ Len(imdsResponse.failed_tests) = Cardinality(failed)
                 /\ \A i \in failed :
                      \E k \in DOMAIN imdsResponse.failed_tests :
                          imdsResponse.failed_tests[k] = results[i]
                 /\ \A k \in DOMAIN imdsResponse.failed_tests :
                      ~imdsResponse.failed_tests[k].passed

\* the three critical checks passed and the hop-limit check did not: the
\* validator reported success
C37_Witness ==
    /\ imdsResponse.success
    /\ Len(imdsResponse.test_results) = 4
    /\ imdsResponse.test_results[4].test_name = "IMDS Hop Limit"
    /\ ~imdsResponse.test_results[4].passed

====
